---- MODULE Spec2Model ----
(***************************************************************************)
(* Control D Quick Switcher: the popup's rule lifecycle (apply, remove,    *)
(* status check), the background worker's alarm handlers, the local        *)
(* PendingRestore records, the alarms and the remote rule store.           *)
(*                                                                         *)
(* Strings are sequences of one-character strings, so that startsWith,     *)
(* substring, replace and concatenation are computed as the code computes  *)
(* them.  Every await of the code is one action: the action performs the   *)
(* awaited operation and then the synchronous code up to the next await.   *)
(***************************************************************************)
EXTENDS Integers, Sequences, FiniteSets, TLC

\* ------------------------------------------------------------------ bounds
\* MaxLen: the longest string getDomainVariations is applied to; MaxDuration:
\* the duration in minutes a click may carry; MaxTimers: the setTimeout
\* re-checks pending together; MaxClicks: the clicks that start a handler.
MaxLen == 5
MaxDuration == 1
MaxTimers == 1
MaxClicks == 2

\* ------------------------------------------------------------- constants
BLOCK == 0
BYPASS == 1
REDIRECT == 3
\* JavaScript's null / NaN, kept apart from every action code and duration.
Null == -1
NaN == -1

\* ---------------------------------------------------------------- strings
Chars == {"w", ".", "a"}
EmptyStr == <<>>
WWW == <<"w", "w", "w", ".">>
EXPIRE_RULE == <<"e","x","p","i","r","e","_","r","u","l","e","_">>
REAPPLY_RULE == <<"r","e","a","p","p","l","y","_","r","u","l","e","_">>

\* Variant: String.prototype.includes.
StartsWithAnywhere(s, p) ==
    \E i \in 1..(Len(s) - Len(p) + 1) : SubSeq(s, i, i + Len(p) - 1) = p

\* String.prototype.startsWith
StartsWith(s, p) == Len(s) >= Len(p) /\ SubSeq(s, 1, Len(p)) = p

\* String.prototype.substring(n)
Substring(s, n) == SubSeq(s, n + 1, Len(s))

\* String.prototype.replace(p, ''): removes the first occurrence of p.
ReplaceFirst(s, p) ==
    LET occ == {i \in 1..(Len(s) - Len(p) + 1) : SubSeq(s, i, i + Len(p) - 1) = p}
    IN IF occ = {} THEN s
       ELSE LET i == CHOOSE j \in occ : \A k \in occ : j <= k
            IN SubSeq(s, 1, i - 1) \o SubSeq(s, i + Len(p), Len(s))

\* All strings over Chars of length at most n.
RECURSIVE StringsUpTo(_)
StringsUpTo(n) ==
    IF n = 0 THEN {EmptyStr}
    ELSE LET shorter == StringsUpTo(n - 1)
         IN shorter \cup {Append(s, c) : s \in {t \in shorter : Len(t) = n - 1}, c \in Chars}

\* ------------------------------------------------------- domain variations
\* Variant: the prefix is never stripped.
getBaseDomainNoStrip(domain) == domain

\* getBaseDomain: the domain without a leading "www.".
getBaseDomain(domain) ==
    IF domain = EmptyStr THEN domain
    ELSE IF StartsWith(domain, WWW) THEN Substring(domain, 4)
    ELSE domain

\* getDomainVariations: the domain, then its other spelling.
getDomainVariations(domain) ==
    LET baseDomain == getBaseDomain(domain)
    IN IF baseDomain # domain THEN <<domain, baseDomain>>
       ELSE <<domain, WWW \o domain>>

\* ------------------------------------------------------------ the universe
\* The hostname of the active tab, and the hosts the remote store may key.
Domains == {<<"a">>}
Hosts == UNION {{getDomainVariations(d)[1], getDomainVariations(d)[2]} : d \in Domains}
NoProxy == ""
Proxies == {"p1"}
Actions == {BLOCK, BYPASS, REDIRECT}
\* The duration field read by parseInt: 0, a number of minutes, or NaN.
Durations == {0, MaxDuration, NaN}
Threads == {"op", "bg", "wk"}

\* Variant: a duration of 0 counts as a duration.
IsNotNegative(d) == d # NaN /\ d >= 0

\* duration > 0, which is false of NaN
IsPositive(d) == d # NaN /\ d > 0

\* ------------------------------------------------------------ remote rules
NoRule == [do |-> Null, via |-> NoProxy]
Rules == {[do |-> a, via |-> v] : a \in Actions, v \in Proxies \cup {NoProxy}}
StoredRules == {r \in Rules : r.via # NoProxy => r.do = REDIRECT}

\* A request in flight: method, the hostnames of its body (or its query), do, via.
NoReq == [method |-> "NONE", hostnames |-> <<>>, do |-> Null, via |-> NoProxy]
Request(m, hs, a, v) == [method |-> m, hostnames |-> hs, do |-> a, via |-> v]

\* JavaScript values of a rule object's action fields.
Undef == <<"undef">>
Num(n) == <<"num", n>>
ObjDo(n) == <<"objdo", n>>
ObjValue(n) == <<"objvalue", n>>
ObjOther == <<"obj">>

\* A rule object of a query response: PK and hostname are "" when absent,
\* hostnames is <<>> when absent.
RuleObject(pk, hostname, hostnames, action, do) ==
    [PK |-> pk, hostname |-> hostname, hostnames |-> hostnames, action |-> action, do |-> do]

\* The store key of the rule for host h, when the store indexes its rules by
\* a key of its own; Resolve finds the host a request names by either.
StoreKey(h) == <<"k">> \o h
Resolve(x) == IF Len(x) > 0 /\ Head(x) = "k" THEN Tail(x) ELSE x

\* How the remote store presents the rule keyed h in a query response: the
\* hostname as PK, the hostname in a hostnames list, or that list with a PK
\* that is the store's own key.
IdShapes == {"PK", "hostnames", "key"}
ActShapes == {"nested", "flat", "none"}
Present(h, rule, idShape, actShape) ==
    RuleObject(IF idShape = "PK" THEN h ELSE IF idShape = "key" THEN StoreKey(h) ELSE EmptyStr,
               EmptyStr,
               IF idShape \in {"hostnames", "key"} THEN <<h>> ELSE <<>>,
               IF actShape = "nested" THEN ObjDo(rule.do) ELSE Undef,
               IF actShape = "flat" THEN Num(rule.do) ELSE Undef)

\* A response: threw (no response, fetch rejected), ok (HTTP 2xx), conflict
\* (HTTP 409), decodable (the body is JSON), successFalse (success === false),
\* existsMark (error code 40003 or an error message containing "exist"),
\* rules (the rule list of a query response).
Response(threw, ok, conflict, decodable, successFalse, existsMark, rules) ==
    [threw |-> threw, ok |-> ok, conflict |-> conflict, decodable |-> decodable,
     successFalse |-> successFalse, existsMark |-> existsMark, rules |-> rules]
RespOk == Response(FALSE, TRUE, FALSE, TRUE, FALSE, FALSE, <<>>)
RespRules(rules) == Response(FALSE, TRUE, FALSE, TRUE, FALSE, FALSE, rules)
RespExists == Response(FALSE, FALSE, TRUE, TRUE, TRUE, TRUE, <<>>)
RespNotFound == Response(FALSE, FALSE, FALSE, TRUE, TRUE, FALSE, <<>>)
RespGarbled == Response(FALSE, FALSE, FALSE, FALSE, FALSE, FALSE, <<>>)
RespRefused == Response(FALSE, TRUE, FALSE, TRUE, TRUE, FALSE, <<>>)
RespThrew == Response(TRUE, FALSE, FALSE, FALSE, FALSE, FALSE, <<>>)
Faults == {RespNotFound, RespGarbled, RespRefused, RespThrew}

Range(s) == {s[i] : i \in 1..Len(s)}
HasRule(store, h) == h \in DOMAIN store /\ store[h] # NoRule

\* The remote store serving a request it accepts: the new store and the response.
Accept(store, rq) ==
    LET h == Resolve(rq.hostnames[1])
        rule == [do |-> rq.do, via |-> rq.via]
        targets == {x \in Range(rq.hostnames) : HasRule(store, x)}
    IN CASE rq.method = "POST" ->
              IF h \in DOMAIN store /\ store[h] = NoRule
              THEN {[store |-> [store EXCEPT ![h] = rule], resp |-> RespOk]}
              ELSE {[store |-> store, resp |-> RespExists]}
         [] rq.method = "PUT" ->
              IF targets # {}
              THEN {[store |-> [x \in DOMAIN store |-> IF x \in targets THEN rule ELSE store[x]],
                     resp |-> RespOk]}
              ELSE {[store |-> store, resp |-> RespNotFound]}
         [] rq.method = "DELETE" ->
              IF HasRule(store, h)
              THEN {[store |-> [store EXCEPT ![h] = NoRule], resp |-> RespOk]}
              ELSE {[store |-> store, resp |-> RespNotFound]}
         [] rq.method = "GET" ->
              IF HasRule(store, h)
              THEN {[store |-> store, resp |-> RespRules(<<Present(h, store[h], i, s)>>)] :
                        i \in IdShapes, s \in ActShapes}
              ELSE {[store |-> store, resp |-> RespRules(<<>>)]}

\* Every outcome of a request: served, or failed without effect.
Serve(store, rq) == Accept(store, rq) \cup {[store |-> store, resp |-> f] : f \in Faults}

\* ------------------------------------------------------ the popup's gateway
\* Variant: the selected proxy is sent with every action.
ruleBodyAlwaysVia(domain, action, proxyId) ==
    [hostnames |-> <<domain>>, do |-> action, via |-> proxyId]

\* The body of a create/update request; via is NoProxy when the field is absent.
\* The body updateControlDRule sends.
ruleBody(domain, action, proxyId) ==
    [hostnames |-> <<domain>>, do |-> action,
     via |-> IF action = REDIRECT /\ proxyId # NoProxy THEN proxyId ELSE NoProxy]

\* updateControlDRule after the create response: "success", "put" (an update
\* request follows) or "fail".  With neither, the second res.json() finds the
\* body used, res.clone() throws and the outer catch returns the failure.
\* Variant: no update follows a refused create.
postOutcomeNoRetry(resp) ==
    IF ~resp.threw /\ resp.decodable /\ resp.ok /\ ~resp.successFalse THEN "success" ELSE "fail"

\* updateControlDRule after the create response.
postOutcome(resp) ==
    IF resp.threw THEN "fail"
    ELSE LET shouldTryPut == IF resp.decodable THEN resp.existsMark \/ resp.conflict ELSE TRUE
         IN IF resp.decodable /\ resp.ok /\ ~resp.successFalse THEN "success"
            ELSE IF shouldTryPut \/ ~resp.ok THEN "put"
            ELSE "fail"

\* Variant: the success flag of the update response is not read.
putOutcomeIgnoreFlag(resp) ==
    IF resp.threw \/ ~resp.decodable THEN "fail"
    ELSE IF ~resp.ok THEN "fail"
    ELSE "success"

\* updateControlDRule after the update response.
putOutcome(resp) ==
    IF resp.threw \/ ~resp.decodable THEN "fail"
    ELSE IF ~resp.ok \/ resp.successFalse THEN "fail"
    ELSE "success"

\* Variant: no deletion response ends the loop.
deleteOutcomeNeverStops(resp) == IF resp.threw THEN "bypass" ELSE "next"

\* removeControlDRule after one deletion response: "success", "next" (the next
\* candidate) or "bypass" (the catch: removeRuleViaBypass at once).
deleteOutcome(resp) ==
    IF resp.threw THEN "bypass"
    ELSE IF ~resp.decodable THEN "next"
    ELSE IF resp.ok /\ ~resp.successFalse THEN "success"
    ELSE "next"

\* Variant: a body that is not JSON is not caught.
bypassOutcomeUncaught(resp) ==
    IF resp.threw THEN "fail"
    ELSE IF ~resp.decodable THEN "throw"
    ELSE IF ~resp.ok \/ resp.successFalse THEN "fail"
    ELSE "success"

\* removeRuleViaBypass after its update response.
bypassOutcome(resp) ==
    IF resp.threw \/ ~resp.decodable THEN "fail"
    ELSE IF ~resp.ok \/ resp.successFalse THEN "fail"
    ELSE "success"

\* Variant: the variations are not filtered against the PK.
domainsToTryNoFilter(found, domain) ==
    LET domainVariations == getDomainVariations(domain)
    IN IF found.found /\ found.PK # EmptyStr
       THEN <<found.PK>> \o domainVariations
       ELSE domainVariations

\* The deletion candidates: the found rule's PK first, when it has one.
domainsToTry(found, domain) ==
    LET domainVariations == getDomainVariations(domain)
    IN IF found.found /\ found.PK # EmptyStr
       THEN <<found.PK>> \o SelectSeq(domainVariations, LAMBDA d : d # found.PK)
       ELSE domainVariations

\* ------------------------------------------------------- the status check
\* Variant: a rule object is matched by its PK only.
MatchesPKOnly(r, dvs) == \E i \in 1..Len(dvs) : r.PK = dvs[i]

\* The predicate of rules.find: the rule object matches a domain variation.
Matches(r, dvs) ==
    LET hostnames == IF r.hostnames # <<>> THEN r.hostnames
                     ELSE IF r.hostname # EmptyStr THEN <<r.hostname>> ELSE <<>>
        rulePK == IF r.PK # EmptyStr THEN r.PK ELSE r.hostname
    IN \E i \in 1..Len(dvs) :
          \/ dvs[i] \in Range(hostnames)
          \/ r.hostname = dvs[i]
          \/ rulePK = dvs[i]
          \/ (rulePK # EmptyStr /\ \E j \in 1..Len(dvs) : rulePK = dvs[j])

\* The action code of a found rule object; Null when none of the shapes fits.
ValueOf(v) == IF v[1] = "num" THEN v[2] ELSE IF v[1] = "objvalue" THEN v[2] ELSE Null
\* Variant: the nested form action.do is not read.
ExtractActionFlat(r) ==
    IF r.do # Undef THEN ValueOf(r.do)
    ELSE IF r.action # Undef THEN ValueOf(r.action)
    ELSE Null

ExtractAction(r) ==
    IF r.action[1] = "objdo" THEN r.action[2]
    ELSE IF r.do # Undef THEN ValueOf(r.do)
    ELSE IF r.action # Undef THEN ValueOf(r.action)
    ELSE Null

\* What the popup keeps of the rule object it found: its PK and action.
NoFound == [found |-> FALSE, PK |-> EmptyStr, action |-> Null]
Found(r) == [found |-> TRUE, PK |-> r.PK, action |-> ExtractAction(r)]

\* Variant: a rule object is matched against the queried variation only.
FindRuleFirstOnly(rules, dvs) ==
    LET hits == {i \in 1..Len(rules) : Matches(rules[i], <<dvs[1]>>)}
    IN IF hits = {} THEN NoFound
       ELSE Found(rules[CHOOSE i \in hits : \A j \in hits : i <= j])

\* rules.find over a non-empty rule list: the first match, or nothing.
FindRule(rules, dvs) ==
    LET hits == {i \in 1..Len(rules) : Matches(rules[i], dvs)}
    IN IF hits = {} THEN NoFound
       ELSE Found(rules[CHOOSE i \in hits : \A j \in hits : i <= j])

\* --------------------------------------------------------- the worker
\* Variant: the stored action is not sent.
workerBodyBlockOnly(domain, action, proxyId) ==
    [hostnames |-> <<domain>>, do |-> BLOCK, via |-> NoProxy]

\* The body reapplyRule sends.
workerBody(domain, action, proxyId) ==
    [hostnames |-> <<domain>>, do |-> action,
     via |-> IF action = REDIRECT /\ proxyId # NoProxy THEN proxyId ELSE NoProxy]

\* A PendingRestore record of storage.local, keyed rule_<domain>.
NoRecord == [present |-> FALSE, action |-> Null, proxyId |-> NoProxy]
Record(action, proxyId) == [present |-> TRUE, action |-> action, proxyId |-> proxyId]

ExpireName(domain) == EXPIRE_RULE \o domain
ReapplyName(domain) == REAPPLY_RULE \o domain

\* ------------------------------------------------------------------ state
\* A read of chrome.storage completes with the step that issues it; a fetch
\* and a write of chrome.storage each complete in an action of their own.
\* One click handler runs at a time ("op"); the tabs callback and the timer
\* re-checks run beside it ("bg"); the worker runs one alarm handler at a
\* time ("wk").
VARIABLES
    remote,             \* the remote rule store: host -> rule or NoRule
    alarms,             \* the names of the armed chrome.alarms
    pendingRestore,     \* storage.local: domain -> PendingRestore or NoRecord
    apiKey, profileId,  \* storage.sync: the credential and the profile ("" when unset)
    currentDomain, selectedProxy,
    hasExistingRule, existingRuleAction, foundRule,
    applyDisabled, removeDisabled,
    pc,                 \* where each handler stands: thread -> label
    req,                \* the request each handler has in flight, or NoReq
    duration,           \* the click handler's duration
    opCands,            \* removeControlDRule: the candidates not yet tried
    opTried,            \* removeControlDRule: the candidates requested so far
    opAction,           \* the Remove handler: existingRuleAction when removeControlDRule was called
    opRecord,           \* the PendingRestore being written by storage.local.set
    recheckTimers,      \* pending setTimeout re-checks
    clicks,             \* the clicks that started a handler so far
    result,             \* what the last click came to: "none" (nothing yet), "nocreds",
                        \* "noproxy" (rejected), "success", "failure" (the gateway's result)
    wDomain,            \* the domain the worker's handler was dispatched with
    fnIn, fnOut, fnDone \* the input and result of a function applied on its own

persistVars == <<remote, alarms, pendingRestore, apiKey, profileId>>
sessionVars == <<currentDomain, selectedProxy, hasExistingRule,
                 existingRuleAction, foundRule, applyDisabled, removeDisabled>>
threadVars == <<pc, req, duration, opCands, opTried, opAction, opRecord, recheckTimers, wDomain, clicks, result>>
fnVars == <<fnIn, fnOut, fnDone>>
vars == <<persistVars, sessionVars, threadVars, fnVars>>

CredsMissing == apiKey = "" \/ profileId = ""

\* updateUIForRuleStatus: which of the two buttons is shown.
applyBtnHidden == hasExistingRule
removeBtnHidden == ~hasExistingRule

\* The popup as the DOMContentLoaded handler leaves it, before the tabs.query
\* callback has run.
FreshSession ==
    /\ currentDomain = EmptyStr
    /\ selectedProxy = NoProxy
    /\ hasExistingRule = FALSE
    /\ existingRuleAction = Null
    /\ foundRule = NoFound
    /\ applyDisabled = FALSE
    /\ removeDisabled = FALSE

IdleThreads ==
    /\ pc = [t \in Threads |-> IF t = "bg" THEN "tabs" ELSE "idle"]
    /\ req = [t \in Threads |-> NoReq]
    /\ duration = 0
    /\ opCands = <<>>
    /\ opTried = <<>>
    /\ opAction = Null
    /\ opRecord = NoRecord
    /\ recheckTimers = 0
    /\ wDomain = EmptyStr
    /\ clicks = 0
    /\ result = "none"

Init ==
    /\ remote = [h \in Hosts |-> NoRule]
    /\ alarms = {}
    /\ pendingRestore = [d \in Domains |-> NoRecord]
    /\ apiKey = "" /\ profileId = ""
    /\ FreshSession
    /\ IdleThreads
    /\ fnIn = EmptyStr /\ fnOut = <<>> /\ fnDone = FALSE

\* ------------------------------------------------- popup: checkExistingRule
\* checkExistingRule returns to its caller: the Apply handler's finally resets
\* its button; the tabs callback and the timer callback have nothing left to do.
CheckReturn(t) ==
    /\ pc' = [pc EXCEPT ![t] = "idle"]
    /\ req' = [req EXCEPT ![t] = NoReq]
    /\ applyDisabled' = IF t = "op" THEN FALSE ELSE applyDisabled
    /\ duration' = IF t = "op" THEN 0 ELSE duration

\* Variant: the check starts with the second variation.
CheckStartSecond(t, domain) ==
    IF domain = EmptyStr \/ CredsMissing
    THEN CheckReturn(t) /\ UNCHANGED foundRule
    ELSE /\ foundRule' = NoFound
         /\ pc' = [pc EXCEPT ![t] = "chk_q1"]
         /\ req' = [req EXCEPT ![t] =
                       Request("GET", <<getDomainVariations(domain)[2]>>, Null, NoProxy)]
         /\ UNCHANGED <<applyDisabled, duration>>

\* checkExistingRule is called: without a domain or credentials it returns;
\* otherwise foundRule is cleared and the first variation is queried.
CheckStart(t, domain) ==
    IF domain = EmptyStr \/ CredsMissing
    THEN CheckReturn(t) /\ UNCHANGED foundRule
    ELSE /\ foundRule' = NoFound
         /\ pc' = [pc EXCEPT ![t] = "chk_q1"]
         /\ req' = [req EXCEPT ![t] =
                       Request("GET", <<getDomainVariations(domain)[1]>>, Null, NoProxy)]
         /\ UNCHANGED <<applyDisabled, duration>>

\* checkExistingRule after one query response: the catch is entered (fetch
\* rejected, or res.json() failed on a 2xx response); the response is 2xx with
\* a non-empty rule list; foundRule after the response (rules.find assigns it
\* only for such a list).
checkCaught(r) == r.threw \/ (r.ok /\ ~r.decodable)
checkListed(r) == r.ok /\ r.decodable /\ r.rules # <<>>
checkFound(r, variations, found) ==
    IF checkListed(r) THEN FindRule(r.rules, variations) ELSE found

\* The response to the query of one variation, and what follows it.
CheckQuery(t) ==
    /\ pc[t] \in {"chk_q1", "chk_q2"}
    /\ \E out \in Serve(remote, req[t]) :
          LET r == out.resp
              variations == getDomainVariations(currentDomain)
              caught == checkCaught(r)
              listed == checkListed(r)
              fr == checkFound(r, variations, foundRule)
              last == pc[t] = "chk_q2"
          IN /\ remote' = out.store
             /\ IF caught
                THEN /\ hasExistingRule' = FALSE
                     /\ UNCHANGED <<existingRuleAction, foundRule>>
                     /\ CheckReturn(t)
                ELSE IF (listed /\ fr.found) \/ last
                THEN /\ hasExistingRule' = fr.found
                     /\ existingRuleAction' = IF fr.found THEN fr.action ELSE Null
                     /\ foundRule' = IF fr.found THEN fr ELSE NoFound
                     /\ CheckReturn(t)
                ELSE /\ foundRule' = fr
                     /\ pc' = [pc EXCEPT ![t] = "chk_q2"]
                     /\ req' = [req EXCEPT ![t] = Request("GET", <<variations[2]>>, Null, NoProxy)]
                     /\ UNCHANGED <<hasExistingRule, existingRuleAction, applyDisabled, duration>>
    /\ UNCHANGED <<alarms, pendingRestore, apiKey, profileId, currentDomain, selectedProxy, removeDisabled, opCands, opTried, opAction, opRecord, recheckTimers,
                   wDomain, clicks, result, fnVars>>

\* A setTimeout re-check scheduled by a successful Remove runs.
RecheckFire ==
    /\ recheckTimers > 0
    /\ pc["bg"] = "idle"
    /\ recheckTimers' = recheckTimers - 1
    /\ CheckStart("bg", currentDomain)
    /\ UNCHANGED <<persistVars, currentDomain, selectedProxy, hasExistingRule,
                   existingRuleAction, removeDisabled, opCands, opTried, opAction, opRecord, wDomain, clicks, result, fnVars>>

\* ----------------------------------------------------- popup: construction
\* The popup is closed and opened again: a new session, its timers gone.
OpenPopup ==
    /\ pc["op"] = "idle"
    /\ currentDomain' = EmptyStr
    /\ selectedProxy' = NoProxy
    /\ hasExistingRule' = FALSE
    /\ existingRuleAction' = Null
    /\ foundRule' = NoFound
    /\ applyDisabled' = FALSE
    /\ removeDisabled' = FALSE
    /\ pc' = [pc EXCEPT !["bg"] = "tabs"]
    /\ req' = [req EXCEPT !["bg"] = NoReq]
    /\ recheckTimers' = 0
    /\ result' = "none"
    /\ UNCHANGED <<persistVars, duration, opCands, opTried, opAction, opRecord, wDomain, clicks, fnVars>>

\* The chrome.tabs.query callback: no usable tab disables Apply; otherwise the
\* hostname becomes the current domain and checkExistingRule is called.
TabsCallback(d) ==
    /\ pc["bg"] = "tabs"
    /\ IF d = EmptyStr
       THEN /\ applyDisabled' = TRUE
            /\ pc' = [pc EXCEPT !["bg"] = "idle"]
            /\ UNCHANGED <<currentDomain, foundRule, req, duration>>
       ELSE /\ currentDomain' = d
            /\ CheckStart("bg", d)
    /\ UNCHANGED <<persistVars, selectedProxy, hasExistingRule,
                   existingRuleAction, removeDisabled, opCands, opTried, opAction, opRecord, recheckTimers,
                   wDomain, clicks, result, fnVars>>

SaveApiKey ==
    /\ apiKey = ""
    /\ apiKey' = "key"
    /\ UNCHANGED <<remote, alarms, pendingRestore, profileId, sessionVars, threadVars, fnVars>>

SaveProfileId ==
    /\ profileId = ""
    /\ profileId' = "p123"
    /\ UNCHANGED <<remote, alarms, pendingRestore, apiKey, sessionVars, threadVars, fnVars>>

\* ---------------------------------------------------------- popup: Apply
\* Variant: the click is not validated.
ApplyClickNoValidation(a, p, dur) ==
    /\ pc["op"] = "idle"
    /\ ~applyDisabled /\ ~applyBtnHidden
    /\ ~CredsMissing
    /\ LET proxy == IF a = REDIRECT THEN p ELSE selectedProxy
           b == ruleBody(currentDomain, a, proxy)
       IN /\ selectedProxy' = proxy
          /\ clicks < MaxClicks
          /\ clicks' = clicks + 1
          /\ result' = "none"
          /\ duration' = dur
          /\ applyDisabled' = TRUE
          /\ req' = [req EXCEPT !["op"] = Request("POST", b.hostnames, b.do, b.via)]
          /\ pc' = [pc EXCEPT !["op"] = "ap_post"]
    /\ UNCHANGED <<persistVars, currentDomain, hasExistingRule, existingRuleAction, foundRule,
                   removeDisabled, opCands, opTried, opAction, opRecord, recheckTimers, wDomain, fnVars>>

\* The user has selected action a (and, the proxy list being shown for
\* Redirect, proxy p) and clicks Apply with dur in the duration field.  Without
\* a current domain the handler returns at once; without credentials, or for a
\* Redirect without a proxy, it shows an error and returns; otherwise the
\* button is disabled and updateControlDRule sends the create request.
ApplyClick(a, p, dur) ==
    /\ pc["op"] = "idle"
    /\ ~applyDisabled /\ ~applyBtnHidden
    /\ currentDomain # EmptyStr
    /\ LET proxy == IF a = REDIRECT THEN p ELSE selectedProxy
           b == ruleBody(currentDomain, a, proxy)
       IN /\ selectedProxy' = proxy
          /\ IF CredsMissing \/ (a = REDIRECT /\ proxy = NoProxy)
             THEN /\ result' = IF CredsMissing THEN "nocreds" ELSE "noproxy"
                  /\ UNCHANGED <<duration, applyDisabled, req, pc, clicks>>
             ELSE /\ clicks < MaxClicks
                  /\ clicks' = clicks + 1
                  /\ result' = "none"
                  /\ duration' = dur
                  /\ applyDisabled' = TRUE
                  /\ req' = [req EXCEPT !["op"] = Request("POST", b.hostnames, b.do, b.via)]
                  /\ pc' = [pc EXCEPT !["op"] = "ap_post"]
    /\ UNCHANGED <<persistVars, currentDomain, hasExistingRule, existingRuleAction, foundRule,
                   removeDisabled, opCands, opTried, opAction, opRecord, recheckTimers, wDomain, fnVars>>

\* Variant: the expiry alarm is armed whatever the result and the duration.
ApplyResultAlwaysArm(success) ==
    /\ result' = IF success THEN "success" ELSE "failure"
    /\ alarms' = alarms \cup {ExpireName(currentDomain)}
    /\ CheckStart("op", currentDomain)

\* Variant: the status is refreshed after a success only.
ApplyResultCheckOnSuccess(success) ==
    /\ result' = IF success THEN "success" ELSE "failure"
    /\ alarms' = IF success /\ IsPositive(duration)
                 THEN alarms \cup {ExpireName(currentDomain)} ELSE alarms
    /\ IF success THEN CheckStart("op", currentDomain)
       ELSE CheckReturn("op") /\ UNCHANGED foundRule

\* updateControlDRule has returned: a success with a duration arms the expiry
\* alarm; then checkExistingRule is called.
ApplyResult(success) ==
    /\ result' = IF success THEN "success" ELSE "failure"
    /\ alarms' = IF success /\ IsPositive(duration)
                 THEN alarms \cup {ExpireName(currentDomain)} ELSE alarms
    /\ CheckStart("op", currentDomain)

\* The response to the create request.
ApplyPost ==
    /\ pc["op"] = "ap_post"
    /\ \E out \in Serve(remote, req["op"]) :
          /\ remote' = out.store
          /\ IF postOutcome(out.resp) = "put"
             THEN /\ req' = [req EXCEPT !["op"].method = "PUT"]
                  /\ pc' = [pc EXCEPT !["op"] = "ap_put"]
                  /\ UNCHANGED <<alarms, foundRule, applyDisabled, duration, result>>
             ELSE ApplyResult(postOutcome(out.resp) = "success")
    /\ UNCHANGED <<pendingRestore, apiKey, profileId, currentDomain, selectedProxy, hasExistingRule, existingRuleAction, removeDisabled,
                   opCands, opTried, opAction, opRecord, recheckTimers, wDomain, clicks, fnVars>>

\* The response to the update request.
ApplyPut ==
    /\ pc["op"] = "ap_put"
    /\ \E out \in Serve(remote, req["op"]) :
          /\ remote' = out.store
          /\ ApplyResult(putOutcome(out.resp) = "success")
    /\ UNCHANGED <<pendingRestore, apiKey, profileId, currentDomain, selectedProxy, hasExistingRule, existingRuleAction, removeDisabled,
                   opCands, opTried, opAction, opRecord, recheckTimers, wDomain, clicks, fnVars>>

\* --------------------------------------------------------- popup: Remove
\* The click on Remove.  Nothing happens without a current domain or without
\* credentials; otherwise the button is disabled and removeControlDRule builds
\* its candidates and sends the first deletion.
RemoveClick(dur) ==
    /\ pc["op"] = "idle"
    /\ ~removeDisabled /\ ~removeBtnHidden
    /\ currentDomain # EmptyStr
    /\ ~CredsMissing
    /\ clicks < MaxClicks
    /\ clicks' = clicks + 1
    /\ result' = "none"
    /\ LET cands == domainsToTry(foundRule, currentDomain)
       IN /\ duration' = dur
          /\ removeDisabled' = TRUE
          /\ req' = [req EXCEPT !["op"] = Request("DELETE", <<Head(cands)>>, Null, NoProxy)]
          /\ opCands' = Tail(cands)
          /\ opTried' = <<Head(cands)>>
          /\ opAction' = existingRuleAction
          /\ pc' = [pc EXCEPT !["op"] = "rm_del"]
    /\ UNCHANGED <<persistVars, currentDomain, selectedProxy, hasExistingRule,
                   existingRuleAction, foundRule, applyDisabled, opRecord, recheckTimers,
                   wDomain, fnVars>>

ScheduleRecheck == IF recheckTimers < MaxTimers THEN recheckTimers + 1 ELSE recheckTimers

\* Variant: the restore bookkeeping is done whatever the result.
RemoveResultNoCheck(success) ==
    /\ result' = IF success THEN "success" ELSE "failure"
    /\ opCands' = <<>>
    /\ opTried' = <<>>
    /\ opAction' = Null
    /\ req' = [req EXCEPT !["op"] = NoReq]
    /\ IF IsPositive(duration)
       THEN /\ alarms' = alarms \cup {ReapplyName(currentDomain)}
            /\ opRecord' = Record(existingRuleAction, selectedProxy)
            /\ pc' = [pc EXCEPT !["op"] = "rm_persist"]
            /\ UNCHANGED <<recheckTimers, removeDisabled, duration>>
       ELSE /\ recheckTimers' = IF success THEN ScheduleRecheck ELSE recheckTimers
            /\ removeDisabled' = FALSE
            /\ duration' = 0
            /\ pc' = [pc EXCEPT !["op"] = "idle"]
            /\ UNCHANGED <<alarms, opRecord>>

\* removeControlDRule has returned.  A success with a duration arms the reapply
\* alarm and calls storage.local.set with the action the session holds now; any
\* other success schedules the re-check; the finally resets the button.
RemoveResult(success) ==
    /\ result' = IF success THEN "success" ELSE "failure"
    /\ opCands' = <<>>
    /\ opTried' = <<>>
    /\ opAction' = Null
    /\ req' = [req EXCEPT !["op"] = NoReq]
    /\ IF success /\ IsPositive(duration)
       THEN /\ alarms' = alarms \cup {ReapplyName(currentDomain)}
            /\ opRecord' = Record(existingRuleAction, selectedProxy)
            /\ pc' = [pc EXCEPT !["op"] = "rm_persist"]
            /\ UNCHANGED <<recheckTimers, removeDisabled, duration>>
       ELSE /\ recheckTimers' = IF success THEN ScheduleRecheck ELSE recheckTimers
            /\ removeDisabled' = FALSE
            /\ duration' = 0
            /\ pc' = [pc EXCEPT !["op"] = "idle"]
            /\ UNCHANGED <<alarms, opRecord>>

\* removeRuleViaBypass is called: one update to Bypass for the domain variations.
RemoveToBypass ==
    /\ req' = [req EXCEPT !["op"] =
                  Request("PUT", getDomainVariations(currentDomain), BYPASS, NoProxy)]
    /\ opCands' = <<>>
    /\ pc' = [pc EXCEPT !["op"] = "rm_bypass"]
    /\ UNCHANGED <<opTried, opAction, alarms, opRecord, recheckTimers, removeDisabled, duration, result>>

\* The response to one deletion request.
RemoveDelete ==
    /\ pc["op"] = "rm_del"
    /\ \E out \in Serve(remote, req["op"]) :
          /\ remote' = out.store
          /\ CASE deleteOutcome(out.resp) = "success" -> RemoveResult(TRUE)
               [] deleteOutcome(out.resp) = "bypass" -> RemoveToBypass
               [] deleteOutcome(out.resp) = "next" ->
                    IF opCands = <<>>
                    THEN RemoveToBypass
                    ELSE /\ req' = [req EXCEPT !["op"] =
                                       Request("DELETE", <<Head(opCands)>>, Null, NoProxy)]
                         /\ opCands' = Tail(opCands)
                         /\ opTried' = Append(opTried, Head(opCands))
                         /\ UNCHANGED <<opAction, pc, alarms, opRecord, recheckTimers, removeDisabled,
                                        duration, result>>
    /\ UNCHANGED <<pendingRestore, apiKey, profileId, currentDomain, selectedProxy, hasExistingRule, existingRuleAction, foundRule,
                   applyDisabled, wDomain, clicks, fnVars>>

\* The response to the bypass update.
RemoveBypass ==
    /\ pc["op"] = "rm_bypass"
    /\ \E out \in Serve(remote, req["op"]) :
          /\ remote' = out.store
          /\ RemoveResult(bypassOutcome(out.resp) = "success")
    /\ UNCHANGED <<pendingRestore, apiKey, profileId, currentDomain, selectedProxy, hasExistingRule, existingRuleAction, foundRule,
                   applyDisabled, wDomain, clicks, fnVars>>

\* Variant: the write replaces the whole of storage.local.
RemovePersistAlone ==
    /\ pc["op"] = "rm_persist"
    /\ pendingRestore' = [d \in DOMAIN pendingRestore |->
                             IF d = currentDomain THEN opRecord ELSE NoRecord]
    /\ opRecord' = NoRecord
    /\ recheckTimers' = ScheduleRecheck
    /\ removeDisabled' = FALSE
    /\ duration' = 0
    /\ pc' = [pc EXCEPT !["op"] = "idle"]
    /\ UNCHANGED <<remote, alarms, apiKey, profileId, currentDomain, selectedProxy, hasExistingRule, existingRuleAction, foundRule,
                   applyDisabled, req, opCands, opTried, opAction, wDomain, clicks, result, fnVars>>

\* storage.local.set completes: the PendingRestore is stored, the re-check is
\* scheduled and the finally resets the button.
RemovePersist ==
    /\ pc["op"] = "rm_persist"
    /\ pendingRestore' = [pendingRestore EXCEPT ![currentDomain] = opRecord]
    /\ opRecord' = NoRecord
    /\ recheckTimers' = ScheduleRecheck
    /\ removeDisabled' = FALSE
    /\ duration' = 0
    /\ pc' = [pc EXCEPT !["op"] = "idle"]
    /\ UNCHANGED <<remote, alarms, apiKey, profileId, currentDomain, selectedProxy, hasExistingRule, existingRuleAction, foundRule,
                   applyDisabled, req, opCands, opTried, opAction, wDomain, clicks, result, fnVars>>

\* ------------------------------------------------- worker: the alarm listener
WorkerReturn ==
    /\ pc' = [pc EXCEPT !["wk"] = "idle"]
    /\ req' = [req EXCEPT !["wk"] = NoReq]
    /\ wDomain' = EmptyStr

StoredInfo(domain) == IF domain \in DOMAIN pendingRestore THEN pendingRestore[domain] ELSE NoRecord

\* Variant: the expiry handler sends nothing.
removeRuleNoRequest(domain) == WorkerReturn

\* removeRule(domain) is called: with credentials, the deletion is sent.
removeRule(domain) ==
    /\ IF CredsMissing
       THEN WorkerReturn
       ELSE /\ req' = [req EXCEPT !["wk"] = Request("DELETE", <<domain>>, Null, NoProxy)]
            /\ pc' = [pc EXCEPT !["wk"] = "exp_del"]
            /\ wDomain' = domain

\* Variant: a null action is sent like any other.
reapplyRuleNoNullCheck(domain) ==
    LET ruleInfo == StoredInfo(domain)
        b == workerBody(domain, ruleInfo.action, ruleInfo.proxyId)
    IN IF CredsMissing \/ ~ruleInfo.present
       THEN WorkerReturn
       ELSE /\ req' = [req EXCEPT !["wk"] = Request("POST", b.hostnames, b.do, b.via)]
            /\ pc' = [pc EXCEPT !["wk"] = "re_post"]
            /\ wDomain' = domain

\* Variant: the stored record is looked at before the credentials.
reapplyRuleRecordFirst(domain) ==
    LET ruleInfo == StoredInfo(domain)
        b == workerBody(domain, ruleInfo.action, ruleInfo.proxyId)
    IN IF ~ruleInfo.present
       THEN WorkerReturn
       ELSE IF ruleInfo.action = Null
       THEN /\ pc' = [pc EXCEPT !["wk"] = "re_discard"]
            /\ wDomain' = domain
            /\ UNCHANGED req
       ELSE IF CredsMissing
       THEN WorkerReturn
       ELSE /\ req' = [req EXCEPT !["wk"] = Request("POST", b.hostnames, b.do, b.via)]
            /\ pc' = [pc EXCEPT !["wk"] = "re_post"]
            /\ wDomain' = domain

\* reapplyRule(domain) is called: without credentials or a stored record it
\* returns; a record with a null action is removed; otherwise the create
\* request is sent.
reapplyRule(domain) ==
    LET ruleInfo == StoredInfo(domain)
        b == workerBody(domain, ruleInfo.action, ruleInfo.proxyId)
    IN IF CredsMissing \/ ~ruleInfo.present
       THEN WorkerReturn
       ELSE IF ruleInfo.action = Null
       THEN /\ pc' = [pc EXCEPT !["wk"] = "re_discard"]
            /\ wDomain' = domain
            /\ UNCHANGED req
       ELSE /\ req' = [req EXCEPT !["wk"] = Request("POST", b.hostnames, b.do, b.via)]
            /\ pc' = [pc EXCEPT !["wk"] = "re_post"]
            /\ wDomain' = domain

\* An armed alarm fires once: the listener dispatches on the prefix of its name.
AlarmFire(name) ==
    /\ name \in alarms
    /\ pc["wk"] = "idle"
    /\ alarms' = alarms \ {name}
    /\ IF StartsWith(name, EXPIRE_RULE)
       THEN removeRule(ReplaceFirst(name, EXPIRE_RULE))
       ELSE IF StartsWith(name, REAPPLY_RULE)
       THEN reapplyRule(ReplaceFirst(name, REAPPLY_RULE))
       ELSE UNCHANGED <<pc, req, wDomain>>
    /\ UNCHANGED <<remote, pendingRestore, apiKey, profileId, sessionVars, duration,
                   opCands, opTried, opAction, opRecord, recheckTimers, clicks, result, fnVars>>

\* Variant: a deletion that was not served is scheduled again.
ExpDeleteRearm ==
    /\ pc["wk"] = "exp_del"
    /\ \E out \in Serve(remote, req["wk"]) :
          /\ remote' = out.store
          /\ alarms' = IF out.resp.ok THEN alarms ELSE alarms \cup {ExpireName(wDomain)}
    /\ WorkerReturn
    /\ UNCHANGED <<pendingRestore, apiKey, profileId, sessionVars, duration, opCands, opTried, opAction,
                   opRecord, recheckTimers, clicks, result, fnVars>>

\* Variant: the expiry also drops the domain's stored record.
ExpDeleteDropRecord ==
    /\ pc["wk"] = "exp_del"
    /\ \E out \in Serve(remote, req["wk"]) : remote' = out.store
    /\ pendingRestore' = [d \in DOMAIN pendingRestore |->
                             IF d = wDomain THEN NoRecord ELSE pendingRestore[d]]
    /\ WorkerReturn
    /\ UNCHANGED <<alarms, apiKey, profileId, sessionVars, duration, opCands, opTried, opAction,
                   opRecord, recheckTimers, clicks, result, fnVars>>

\* removeRule: the deletion's response (or exception) is logged.
ExpDelete ==
    /\ pc["wk"] = "exp_del"
    /\ \E out \in Serve(remote, req["wk"]) : remote' = out.store
    /\ WorkerReturn
    /\ UNCHANGED <<alarms, pendingRestore, apiKey, profileId, sessionVars, duration, opCands, opTried, opAction,
                   opRecord, recheckTimers, clicks, result, fnVars>>

\* storage.local.remove completes, after a null action or a successful re-apply.
ReRemoveRecord ==
    /\ pc["wk"] \in {"re_discard", "re_unpersist"}
    /\ pendingRestore' = [d \in DOMAIN pendingRestore |->
                             IF d = wDomain THEN NoRecord ELSE pendingRestore[d]]
    /\ WorkerReturn
    /\ UNCHANGED <<remote, alarms, apiKey, profileId, sessionVars, duration, opCands, opTried, opAction,
                   opRecord, recheckTimers, clicks, result, fnVars>>

\* Variant: every response counts as ok.
reapplyOutcomeIgnoreStatus(resp, isPost) == "remove"

\* reapplyRule after a response: "remove" (response.ok: the record is removed),
\* "put" (the create was not ok: the update follows) or "return" (the update
\* was not ok, or fetch threw: the failure is logged).
reapplyOutcome(resp, isPost) ==
    IF resp.threw THEN "return"
    ELSE IF resp.ok THEN "remove"
    ELSE IF isPost THEN "put"
    ELSE "return"

\* Variant: a failed update sends the create again.
ReAfterRetry(resp, isPost) ==
    CASE reapplyOutcome(resp, isPost) = "remove" ->
            /\ pc' = [pc EXCEPT !["wk"] = "re_unpersist"]
            /\ req' = [req EXCEPT !["wk"] = NoReq]
            /\ UNCHANGED wDomain
      [] reapplyOutcome(resp, isPost) = "put" ->
            /\ req' = [req EXCEPT !["wk"].method = "PUT"]
            /\ pc' = [pc EXCEPT !["wk"] = "re_put"]
            /\ UNCHANGED wDomain
      [] reapplyOutcome(resp, isPost) = "return" ->
            IF isPost
            THEN WorkerReturn
            ELSE /\ req' = [req EXCEPT !["wk"].method = "POST"]
                 /\ pc' = [pc EXCEPT !["wk"] = "re_post"]
                 /\ UNCHANGED wDomain

\* What the handler does on each outcome.
ReAfter(resp, isPost) ==
    CASE reapplyOutcome(resp, isPost) = "remove" ->
            /\ pc' = [pc EXCEPT !["wk"] = "re_unpersist"]
            /\ req' = [req EXCEPT !["wk"] = NoReq]
            /\ UNCHANGED wDomain
      [] reapplyOutcome(resp, isPost) = "put" ->
            /\ req' = [req EXCEPT !["wk"].method = "PUT"]
            /\ pc' = [pc EXCEPT !["wk"] = "re_put"]
            /\ UNCHANGED wDomain
      [] reapplyOutcome(resp, isPost) = "return" -> WorkerReturn

RePost ==
    /\ pc["wk"] = "re_post"
    /\ \E out \in Serve(remote, req["wk"]) : remote' = out.store /\ ReAfter(out.resp, TRUE)
    /\ UNCHANGED <<alarms, pendingRestore, apiKey, profileId, sessionVars, duration, opCands, opTried, opAction,
                   opRecord, recheckTimers, clicks, result, fnVars>>

RePut ==
    /\ pc["wk"] = "re_put"
    /\ \E out \in Serve(remote, req["wk"]) : remote' = out.store /\ ReAfter(out.resp, FALSE)
    /\ UNCHANGED <<alarms, pendingRestore, apiKey, profileId, sessionVars, duration, opCands, opTried, opAction,
                   opRecord, recheckTimers, clicks, result, fnVars>>

\* ------------------------------------------------------------ specification
Next ==
    \/ OpenPopup
    \/ \E d \in Domains \cup {EmptyStr} : TabsCallback(d)
    \/ SaveApiKey
    \/ SaveProfileId
    \/ \E t \in {"op", "bg"} : CheckQuery(t)
    \/ RecheckFire
    \/ \E a \in Actions, p \in Proxies \cup {NoProxy}, dur \in Durations : ApplyClick(a, p, dur)
    \/ ApplyPost
    \/ ApplyPut
    \/ \E dur \in Durations : RemoveClick(dur)
    \/ RemoveDelete
    \/ RemoveBypass
    \/ RemovePersist
    \/ \E name \in alarms : AlarmFire(name)
    \/ ExpDelete
    \/ ReRemoveRecord
    \/ RePost
    \/ RePut

Spec == Init /\ [][Next]_vars

\* ------------------------------------- getDomainVariations applied on its own
InitVariations ==
    /\ remote = [h \in Hosts |-> NoRule]
    /\ alarms = {}
    /\ pendingRestore = [d \in Domains |-> NoRecord]
    /\ apiKey = "" /\ profileId = ""
    /\ FreshSession
    /\ IdleThreads
    /\ fnIn \in StringsUpTo(MaxLen)
    /\ fnOut = <<>>
    /\ fnDone = FALSE

ComputeVariations ==
    /\ ~fnDone
    /\ fnOut' = getDomainVariations(fnIn)
    /\ fnDone' = TRUE
    /\ UNCHANGED <<persistVars, sessionVars, threadVars, fnIn>>

NextVariations == ComputeVariations

SpecVariations == InitVariations /\ [][NextVariations]_vars

\* ------------------------- the Remove handler over records of earlier removals
\* A second domain, and the records storage.local may hold.
OtherDomain == <<"a", ".", "a">>
StoredRecords ==
    {NoRecord} \cup {Record(a, p) : a \in Actions \cup {Null}, p \in Proxies \cup {NoProxy}}

\* The popup shows the Block rule of domain "a" as active, credentials are
\* saved, and storage.local holds what earlier temporary removals left: for "a"
\* the record of a rule that was not a Block rule, for the other domain any
\* record or none.
InitRestore ==
    /\ remote = [h \in Hosts |-> IF h = <<"a">> THEN [do |-> BLOCK, via |-> NoProxy] ELSE NoRule]
    /\ alarms = {}
    /\ pendingRestore \in {f \in [Domains \cup {OtherDomain} -> StoredRecords] :
                              \A d \in Domains : f[d].present /\ f[d].action # BLOCK}
    /\ apiKey = "key" /\ profileId = "p123"
    /\ currentDomain = <<"a">>
    /\ selectedProxy = NoProxy
    /\ hasExistingRule = TRUE
    /\ existingRuleAction = BLOCK
    /\ foundRule = [found |-> TRUE, PK |-> <<"a">>, action |-> BLOCK]
    /\ applyDisabled = FALSE
    /\ removeDisabled = FALSE
    /\ pc = [t \in Threads |-> "idle"]
    /\ req = [t \in Threads |-> NoReq]
    /\ duration = 0
    /\ opCands = <<>>
    /\ opTried = <<>>
    /\ opAction = Null
    /\ opRecord = NoRecord
    /\ recheckTimers = 0
    /\ wDomain = EmptyStr
    /\ clicks = 0
    /\ result = "none"
    /\ fnIn = EmptyStr /\ fnOut = <<>> /\ fnDone = FALSE

NextRestore ==
    \/ \E dur \in Durations : RemoveClick(dur)
    \/ RemoveDelete
    \/ RemoveBypass
    \/ RemovePersist

SpecRestore == InitRestore /\ [][NextRestore]_vars

\* ------------------------- rules.find applied to one query response on its own
\* The domains checked: a bare domain and its www. spelling.  The rule objects
\* a response may list: keyed by PK, by a hostname field or by a hostnames
\* list, under either spelling, under the store's own key or under another host.
FindDomains == {<<"a">>, WWW \o <<"a">>}
FindKeys == {EmptyStr, <<"a">>, WWW \o <<"a">>, StoreKey(<<"a">>)}
FindHostnames == {EmptyStr, <<"a">>, WWW \o <<"a">>}
FindLists == {<<>>, <<<<"a">>>>, <<WWW \o <<"a">>>>, <<OtherDomain>>}
FindObjects ==
    {RuleObject(pk, h, hs, Undef, do) :
        pk \in FindKeys, h \in FindHostnames, hs \in FindLists, do \in {Num(BYPASS), Undef}}
FindRuleLists ==
    {<<r>> : r \in FindObjects} \cup
    {<<RuleObject(EmptyStr, EmptyStr, <<OtherDomain>>, Undef, Num(BLOCK)), r>> : r \in FindObjects}

InitFind ==
    /\ remote = [h \in Hosts |-> NoRule]
    /\ alarms = {}
    /\ pendingRestore = [d \in Domains |-> NoRecord]
    /\ apiKey = "" /\ profileId = ""
    /\ FreshSession
    /\ IdleThreads
    /\ fnIn \in {[domain |-> d, resp |-> Response(FALSE, ok, FALSE, TRUE, ~ok, FALSE, rules)] :
                    d \in FindDomains, ok \in BOOLEAN, rules \in FindRuleLists}
    /\ fnOut = NoFound
    /\ fnDone = FALSE

\* One query response of checkExistingRule, from foundRule = null.
ComputeFound ==
    /\ ~fnDone
    /\ fnOut' = checkFound(fnIn.resp, getDomainVariations(fnIn.domain), NoFound)
    /\ fnDone' = TRUE
    /\ UNCHANGED <<persistVars, sessionVars, threadVars, fnIn>>

NextFind == ComputeFound

SpecFind == InitFind /\ [][NextFind]_vars

\* ----------------- the click handlers with the read of storage.sync as a step
\* Each click handler awaits chrome.storage.sync.get before it disables its
\* button.  Here that read is a step of its own, and the handlers started by
\* two click events are told apart.  The clicks carry no duration, and the
\* status check is taken in one step, all its queries answered at once.
Handlers == {"h1", "h2"}
ClickActions == {BLOCK, BYPASS}

InitClicks ==
    /\ remote \in {[h \in Hosts |-> NoRule],
                   [h \in Hosts |-> IF h = <<"a">> THEN [do |-> BLOCK, via |-> NoProxy] ELSE NoRule]}
    /\ alarms = {}
    /\ pendingRestore = [d \in Domains |-> NoRecord]
    /\ apiKey = "key" /\ profileId = "p123"
    /\ currentDomain = <<"a">>
    /\ selectedProxy = NoProxy
    /\ hasExistingRule = HasRule(remote, <<"a">>)
    /\ existingRuleAction = IF HasRule(remote, <<"a">>) THEN BLOCK ELSE Null
    /\ foundRule = IF HasRule(remote, <<"a">>)
                   THEN [found |-> TRUE, PK |-> <<"a">>, action |-> BLOCK] ELSE NoFound
    /\ applyDisabled = FALSE
    /\ removeDisabled = FALSE
    /\ pc = [h \in Handlers |-> "idle"]
    /\ req = [h \in Handlers |-> NoReq]
    /\ duration = 0
    /\ opCands = [h \in Handlers |-> <<>>]
    /\ opTried = <<>>
    /\ opAction = Null
    /\ opRecord = NoRecord
    /\ recheckTimers = 0
    /\ wDomain = EmptyStr
    /\ clicks = 0
    /\ result = "none"
    /\ fnIn = EmptyStr /\ fnOut = <<>> /\ fnDone = FALSE

ClickUnchanged ==
    UNCHANGED <<alarms, pendingRestore, apiKey, profileId, currentDomain, selectedProxy,
                duration, opTried, opAction, opRecord, wDomain, result, fnVars>>

\* checkExistingRule with both its queries answered: what it leaves in
\* hasExistingRule, existingRuleAction and foundRule.
ClickCheck(q1, q2) ==
    LET variations == getDomainVariations(currentDomain)
        f1 == checkFound(q1, variations, NoFound)
        f2 == checkFound(q2, variations, f1)
    IN IF checkCaught(q1)
       THEN [has |-> FALSE, action |-> existingRuleAction, found |-> NoFound]
       ELSE IF checkListed(q1) /\ f1.found
       THEN [has |-> TRUE, action |-> f1.action, found |-> f1]
       ELSE IF checkCaught(q2)
       THEN [has |-> FALSE, action |-> existingRuleAction, found |-> f1]
       ELSE [has |-> f2.found, action |-> IF f2.found THEN f2.action ELSE Null,
             found |-> IF f2.found THEN f2 ELSE NoFound]

ClickCheckDone ==
    LET variations == getDomainVariations(currentDomain)
    IN \E o1 \in Serve(remote, Request("GET", <<variations[1]>>, Null, NoProxy)),
          o2 \in Serve(remote, Request("GET", <<variations[2]>>, Null, NoProxy)) :
          /\ hasExistingRule' = ClickCheck(o1.resp, o2.resp).has
          /\ existingRuleAction' = ClickCheck(o1.resp, o2.resp).action
          /\ foundRule' = ClickCheck(o1.resp, o2.resp).found

\* A click event on Apply: the handler runs up to the await of storage.sync.get.
ClickApplyStart(h) ==
    /\ pc[h] = "idle"
    /\ ~applyDisabled /\ ~applyBtnHidden
    /\ currentDomain # EmptyStr
    /\ clicks < MaxClicks
    /\ clicks' = clicks + 1
    /\ pc' = [pc EXCEPT ![h] = "ap_get"]
    /\ UNCHANGED <<remote, hasExistingRule, existingRuleAction, foundRule, applyDisabled,
                   removeDisabled, req, opCands, recheckTimers>>
    /\ ClickUnchanged

\* The credentials are read: without them the handler returns; with them the
\* button is disabled and updateControlDRule sends the create request.
ClickApplyCreds(h, a) ==
    /\ pc[h] = "ap_get"
    /\ IF CredsMissing
       THEN /\ pc' = [pc EXCEPT ![h] = "idle"]
            /\ UNCHANGED <<applyDisabled, req>>
       ELSE LET b == ruleBody(currentDomain, a, NoProxy)
            IN /\ applyDisabled' = TRUE
               /\ req' = [req EXCEPT ![h] = Request("POST", b.hostnames, b.do, b.via)]
               /\ pc' = [pc EXCEPT ![h] = "ap_post"]
    /\ UNCHANGED <<remote, hasExistingRule, existingRuleAction, foundRule, removeDisabled,
                   opCands, recheckTimers, clicks>>
    /\ ClickUnchanged

\* The response to the create or the update request of updateControlDRule.
ClickApplyCall(h) ==
    /\ pc[h] \in {"ap_post", "ap_put"}
    /\ \E out \in Serve(remote, req[h]) :
          /\ remote' = out.store
          /\ IF pc[h] = "ap_post" /\ postOutcome(out.resp) = "put"
             THEN /\ req' = [req EXCEPT ![h].method = "PUT"]
                  /\ pc' = [pc EXCEPT ![h] = "ap_put"]
             ELSE /\ req' = [req EXCEPT ![h] = NoReq]
                  /\ pc' = [pc EXCEPT ![h] = "ap_chk"]
    /\ UNCHANGED <<hasExistingRule, existingRuleAction, foundRule, applyDisabled,
                   removeDisabled, opCands, recheckTimers, clicks>>
    /\ ClickUnchanged

\* checkExistingRule of the Apply handler completes and the finally resets
\* the button.
ClickApplyCheck(h) ==
    /\ pc[h] = "ap_chk"
    /\ ClickCheckDone
    /\ applyDisabled' = FALSE
    /\ pc' = [pc EXCEPT ![h] = "idle"]
    /\ UNCHANGED <<remote, removeDisabled, req, opCands, recheckTimers, clicks>>
    /\ ClickUnchanged

\* A click event on Remove: the handler runs up to the await of storage.sync.get.
ClickRemoveStart(h) ==
    /\ pc[h] = "idle"
    /\ ~removeDisabled /\ ~removeBtnHidden
    /\ currentDomain # EmptyStr
    /\ clicks < MaxClicks
    /\ clicks' = clicks + 1
    /\ pc' = [pc EXCEPT ![h] = "rm_get"]
    /\ UNCHANGED <<remote, hasExistingRule, existingRuleAction, foundRule, applyDisabled,
                   removeDisabled, req, opCands, recheckTimers>>
    /\ ClickUnchanged

\* The credentials are read: with them the button is disabled and
\* removeControlDRule sends the deletion of its first candidate.
ClickRemoveCreds(h) ==
    /\ pc[h] = "rm_get"
    /\ IF CredsMissing
       THEN /\ pc' = [pc EXCEPT ![h] = "idle"]
            /\ UNCHANGED <<removeDisabled, req, opCands>>
       ELSE LET cands == domainsToTry(foundRule, currentDomain)
            IN /\ removeDisabled' = TRUE
               /\ req' = [req EXCEPT ![h] = Request("DELETE", <<Head(cands)>>, Null, NoProxy)]
               /\ opCands' = [opCands EXCEPT ![h] = Tail(cands)]
               /\ pc' = [pc EXCEPT ![h] = "rm_del"]
    /\ UNCHANGED <<remote, hasExistingRule, existingRuleAction, foundRule, applyDisabled,
                   recheckTimers, clicks>>
    /\ ClickUnchanged

\* The response to a deletion or to the bypass update.  When removeControlDRule
\* returns, a success schedules the re-check and the finally resets the button.
ClickRemoveCall(h) ==
    /\ pc[h] \in {"rm_del", "rm_bypass"}
    /\ \E out \in Serve(remote, req[h]) :
          LET outcome == IF pc[h] = "rm_del" THEN deleteOutcome(out.resp)
                         ELSE bypassOutcome(out.resp)
          IN /\ remote' = out.store
             /\ IF outcome \in {"success", "fail"}
                THEN /\ recheckTimers' = IF outcome = "success" THEN ScheduleRecheck
                                         ELSE recheckTimers
                     /\ removeDisabled' = FALSE
                     /\ req' = [req EXCEPT ![h] = NoReq]
                     /\ opCands' = [opCands EXCEPT ![h] = <<>>]
                     /\ pc' = [pc EXCEPT ![h] = "idle"]
                ELSE IF outcome = "bypass" \/ opCands[h] = <<>>
                THEN /\ req' = [req EXCEPT ![h] = Request("PUT", getDomainVariations(currentDomain),
                                                          BYPASS, NoProxy)]
                     /\ opCands' = [opCands EXCEPT ![h] = <<>>]
                     /\ pc' = [pc EXCEPT ![h] = "rm_bypass"]
                     /\ UNCHANGED <<recheckTimers, removeDisabled>>
                ELSE /\ req' = [req EXCEPT ![h] = Request("DELETE", <<Head(opCands[h])>>,
                                                          Null, NoProxy)]
                     /\ opCands' = [opCands EXCEPT ![h] = Tail(opCands[h])]
                     /\ UNCHANGED <<pc, recheckTimers, removeDisabled>>
    /\ UNCHANGED <<hasExistingRule, existingRuleAction, foundRule, applyDisabled, clicks>>
    /\ ClickUnchanged

\* A setTimeout re-check scheduled by a successful Remove runs.
ClickRecheck ==
    /\ recheckTimers > 0
    /\ recheckTimers' = recheckTimers - 1
    /\ ClickCheckDone
    /\ UNCHANGED <<remote, applyDisabled, removeDisabled, pc, req, opCands, clicks>>
    /\ ClickUnchanged

NextClicks ==
    \/ \E h \in Handlers : ClickApplyStart(h)
    \/ \E h \in Handlers, a \in ClickActions : ClickApplyCreds(h, a)
    \/ \E h \in Handlers : ClickApplyCall(h)
    \/ \E h \in Handlers : ClickApplyCheck(h)
    \/ \E h \in Handlers : ClickRemoveStart(h)
    \/ \E h \in Handlers : ClickRemoveCreds(h)
    \/ \E h \in Handlers : ClickRemoveCall(h)
    \/ ClickRecheck

SpecClicks == InitClicks /\ [][NextClicks]_vars

\* ------------------------------------ the alarm listener over any domain string
\* The domain strings an alarm name is built from: those over Chars, and those
\* that hold one of the two prefixes themselves.
AlarmDomains ==
    StringsUpTo(MaxLen) \cup
    UNION {{p \o s, s \o p} : p \in {EXPIRE_RULE, REAPPLY_RULE}, s \in StringsUpTo(1)}
AlarmKinds == {"expire", "reapply"}

\* One alarm is armed, as the popup names it, for a domain with a stored
\* record; fnIn keeps the kind and the domain it was armed with.
InitAlarms ==
    /\ fnIn \in [kind : AlarmKinds, domain : AlarmDomains]
    /\ fnOut = <<>>
    /\ fnDone = FALSE
    /\ alarms = {IF fnIn.kind = "expire" THEN ExpireName(fnIn.domain) ELSE ReapplyName(fnIn.domain)}
    /\ remote = [h \in Hosts |-> NoRule]
    /\ pendingRestore = [d \in {fnIn.domain} |-> Record(BLOCK, NoProxy)]
    /\ apiKey = "key" /\ profileId = "p123"
    /\ FreshSession
    /\ IdleThreads

NextAlarms == \E name \in alarms : AlarmFire(name)

SpecAlarms == InitAlarms /\ [][NextAlarms]_vars

\* ------------------------------------ the action extraction applied on its own
\* The values the action and do fields of a found rule object may hold.
FieldValues ==
    {Undef, ObjOther} \cup UNION {{Num(n), ObjDo(n), ObjValue(n)} : n \in Actions}

InitExtract ==
    /\ remote = [h \in Hosts |-> NoRule]
    /\ alarms = {}
    /\ pendingRestore = [d \in Domains |-> NoRecord]
    /\ apiKey = "" /\ profileId = ""
    /\ FreshSession
    /\ IdleThreads
    /\ fnIn \in {RuleObject(<<"a">>, EmptyStr, <<>>, action, do) :
                    action \in FieldValues, do \in FieldValues}
    /\ fnOut = Null
    /\ fnDone = FALSE

ComputeAction ==
    /\ ~fnDone
    /\ fnOut' = ExtractAction(fnIn)
    /\ fnDone' = TRUE
    /\ UNCHANGED <<persistVars, sessionVars, threadVars, fnIn>>

NextExtract == ComputeAction

SpecExtract == InitExtract /\ [][NextExtract]_vars

\* --------------------------------- the deletion candidates computed on their own
\* What foundRule may hold when removeControlDRule is called for domain d: no
\* rule, or a rule without PK, with either variation as PK, or with a PK that
\* is the store's own key.
FoundFor(d) ==
    {NoFound} \cup
    {[found |-> TRUE, PK |-> pk, action |-> BLOCK] :
        pk \in {EmptyStr, getDomainVariations(d)[1], getDomainVariations(d)[2], StoreKey(d)}}

InitCandidates ==
    /\ remote = [h \in Hosts |-> NoRule]
    /\ alarms = {}
    /\ pendingRestore = [d \in Domains |-> NoRecord]
    /\ apiKey = "" /\ profileId = ""
    /\ FreshSession
    /\ IdleThreads
    /\ fnIn \in UNION {{[domain |-> d, found |-> f] : f \in FoundFor(d)} :
                          d \in StringsUpTo(MaxLen) \ {EmptyStr}}
    /\ fnOut = <<>>
    /\ fnDone = FALSE

ComputeCandidates ==
    /\ ~fnDone
    /\ fnOut' = domainsToTry(fnIn.found, fnIn.domain)
    /\ fnDone' = TRUE
    /\ UNCHANGED <<persistVars, sessionVars, threadVars, fnIn>>

NextCandidates == ComputeCandidates

SpecCandidates == InitCandidates /\ [][NextCandidates]_vars

\* ------------------------------ Apply beside the reapply trigger of a removal
\* A temporary Remove of the rule of domain "a" has completed: the rule is gone
\* from the store, its record is in storage.local (with any action and proxy
\* the Remove handler can have stored), reapply_rule_a is armed and the popup
\* shows Ready.
InitReapply ==
    /\ remote = [h \in Hosts |-> NoRule]
    /\ alarms = {ReapplyName(<<"a">>)}
    /\ pendingRestore \in {f \in [Domains -> StoredRecords] : \A d \in Domains : f[d].present}
    /\ apiKey = "key" /\ profileId = "p123"
    /\ currentDomain = <<"a">>
    /\ selectedProxy \in Proxies \cup {NoProxy}
    /\ hasExistingRule = FALSE
    /\ existingRuleAction = Null
    /\ foundRule = NoFound
    /\ applyDisabled = FALSE
    /\ removeDisabled = FALSE
    /\ pc = [t \in Threads |-> "idle"]
    /\ req = [t \in Threads |-> NoReq]
    /\ duration = 0
    /\ opCands = <<>>
    /\ opTried = <<>>
    /\ opAction = Null
    /\ opRecord = NoRecord
    /\ recheckTimers = 0
    /\ wDomain = EmptyStr
    /\ clicks = 0
    /\ result = "none"
    /\ fnIn = EmptyStr /\ fnOut = <<>> /\ fnDone = FALSE

\* The user applies rules while the worker handles the alarms that fire.
NextReapply ==
    \/ \E a \in Actions, p \in Proxies \cup {NoProxy}, dur \in Durations : ApplyClick(a, p, dur)
    \/ ApplyPost
    \/ ApplyPut
    \/ CheckQuery("op")
    \/ \E name \in alarms : AlarmFire(name)
    \/ ExpDelete
    \/ ReRemoveRecord
    \/ RePost
    \/ RePut

SpecReapply == InitReapply /\ [][NextReapply]_vars

\* ------------------------------------- alarms firing without saved credentials
\* The alarms the popup can have armed for two domains.
ArmedNames == UNION {{ExpireName(d), ReapplyName(d)} : d \in Domains \cup {OtherDomain}}

\* The API key, the profile identifier or both are no longer in storage.sync;
\* some alarms armed earlier are still pending (fnIn keeps which), storage.local
\* holds any records of earlier removals, the store may hold a rule for "a".
InitNoCreds ==
    /\ remote \in {[h \in Hosts |-> IF h = <<"a">> THEN r ELSE NoRule] :
                      r \in {NoRule, [do |-> BLOCK, via |-> NoProxy]}}
    /\ alarms \in SUBSET ArmedNames \ {{}}
    /\ pendingRestore \in [Domains \cup {OtherDomain} -> StoredRecords]
    /\ apiKey \in {"", "key"}
    /\ profileId \in {"", "p123"}
    /\ CredsMissing
    /\ FreshSession
    /\ IdleThreads
    /\ fnIn = alarms
    /\ fnOut = <<>>
    /\ fnDone = FALSE

NextNoCreds == \E name \in alarms : AlarmFire(name)

SpecNoCreds == InitNoCreds /\ [][NextNoCreds]_vars

\* ================================================================ properties
\* Steps of the handlers, as the properties below name them.

\* The Apply handler receives the result of updateControlDRule in this step.
ApplyReturns == pc["op"] \in {"ap_post", "ap_put"} /\ pc'["op"] \notin {"ap_post", "ap_put"}

\* The Remove handler receives the result of removeControlDRule in this step.
RemoveReturns == pc["op"] \in {"rm_del", "rm_bypass"} /\ pc'["op"] \notin {"rm_del", "rm_bypass"}

\* storage.local.set of the Remove handler completes in this step.
PersistCompletes == pc["op"] = "rm_persist" /\ pc'["op"] # "rm_persist"

\* The alarm named name fires in this step.
Fires(name) == name \in alarms /\ name \notin alarms'

\* The rule a create/update request asks for.
RequestedRule(rq) == [do |-> rq.do, via |-> rq.via]

\* The hosts among the variations of domain d that hold a rule in store.
RulesFor(store, d) == {h \in Range(getDomainVariations(d)) : HasRule(store, h)}

\* ----------------------------------------------------------------------- C1
\* The steps of C1, one conjunct for each part of the property.
C1_Step ==
    /\ (RemoveReturns /\ result' = "success" /\ IsPositive(duration)
          /\ existingRuleAction = BYPASS) =>
          /\ pc'["op"] = "rm_persist"
          /\ opRecord'.present /\ opRecord'.action = BYPASS
    /\ PersistCompletes => pendingRestore'[currentDomain] = opRecord
    /\ \A d \in Domains :
          (Fires(ReapplyName(d)) /\ ~CredsMissing /\ pendingRestore[d].present
             /\ pendingRestore[d].action = BYPASS) =>
             /\ pc'["wk"] = "re_post"
             /\ wDomain' = d
             /\ req'["wk"] = Request("POST", <<d>>, BYPASS, NoProxy)
    /\ (pc["wk"] = "re_post" /\ pc'["wk"] = "re_put") =>
          req'["wk"] = [req["wk"] EXCEPT !.method = "PUT"]
    /\ pc["wk"] \in {"re_post", "re_put"} =>
          /\ req["wk"].hostnames = <<wDomain>>
          /\ req["wk"].method = IF pc["wk"] = "re_post" THEN "POST" ELSE "PUT"
          /\ \A out \in Accept(remote, req["wk"]) :
                out.resp.ok => reapplyOutcome(out.resp, pc["wk"] = "re_post") = "remove"
    /\ (pc["wk"] = "re_unpersist" /\ pc'["wk"] # "re_unpersist") =>
          ~pendingRestore'[wDomain].present

\* C1: temporary-removal round trip.  When removeControlDRule returns success
\* to a Remove with a duration > 0 while the session holds action 1 (Bypass)
\* for the rule, the record handed to storage.local.set has action 1, and it
\* is stored under the domain when the write completes.  When the alarm
\* reapply_rule_D fires with credentials and a stored record of action 1, the
\* worker sends a create request with hostnames = [D] and do = 1; the update
\* that follows a refused create carries the same body; every response of the
\* remote store that is ok leads to the removal of the record, after which no
\* PendingRestore for D remains.
C1_TemporaryRemovalRoundTrip == [][C1_Step]_vars

\* C1 witness: the worker has re-created the Bypass rule of a stored record and
\* is about to remove the record.
C1_Witness ==
    /\ pc["wk"] = "re_unpersist"
    /\ wDomain \in Domains
    /\ pendingRestore[wDomain] = Record(BYPASS, NoProxy)
    /\ remote[wDomain] = [do |-> BYPASS, via |-> NoProxy]

\* ----------------------------------------------------------------------- C2
\* The steps of C2, one conjunct for each part of the property.
C2_Step ==
    /\ \A d \in Domains :
          (Fires(ExpireName(d)) /\ ~CredsMissing) =>
             /\ pc'["wk"] = "exp_del"
             /\ wDomain' = d
             /\ req'["wk"] = Request("DELETE", <<d>>, Null, NoProxy)
             /\ pendingRestore' = pendingRestore
    /\ pc["wk"] = "exp_del" =>
          \A out \in Accept(remote, req["wk"]) : ~HasRule(out.store, wDomain)
    /\ (pc["wk"] = "exp_del" /\ pc'["wk"] # "exp_del") =>
          /\ remote' = remote \/ ~HasRule(remote', wDomain)
          /\ pendingRestore' = pendingRestore
          /\ alarms' = alarms
    /\ ((pc["op"] \in {"ap_post", "ap_put"} \/ pc'["op"] \in {"ap_post", "ap_put"})
          /\ pc'["op"] # pc["op"]) =>
          pendingRestore' = pendingRestore

\* C2: temporary-apply round trip.  When the alarm expire_rule_D fires with
\* credentials the worker sends one deletion for hostnames = [D]; when the
\* remote store serves it, the store holds no rule for D; the deletion leaves
\* the store either unchanged or without a rule for D.  Neither the Apply
\* handler nor the expiry handler writes a PendingRestore: every step of
\* theirs leaves the records as they are.
C2_TemporaryApplyRoundTrip == [][C2_Step]_vars

\* C2 witness: the expiry alarm of a Redirect rule has fired, the deletion is
\* in flight and no PendingRestore exists for the domain.
C2_Witness ==
    /\ pc["wk"] = "exp_del"
    /\ wDomain \in Domains
    /\ remote[wDomain] = [do |-> REDIRECT, via |-> "p1"]
    /\ ~pendingRestore[wDomain].present

\* ----------------------------------------------------------------------- C3
\* The steps of C3, one conjunct for each part of the property.
C3_Step ==
    /\ (RemoveReturns /\ result' = "success" /\ IsPositive(duration)
          /\ existingRuleAction = Null) =>
          /\ pc'["op"] = "rm_persist"
          /\ opRecord' = Record(Null, selectedProxy)
    /\ PersistCompletes => pendingRestore'[currentDomain] = opRecord
    /\ \A d \in Domains :
          Fires(ReapplyName(d)) =>
             /\ ~pendingRestore[d].present =>
                   /\ pc'["wk"] = "idle"
                   /\ req' = req
                   /\ remote' = remote
                   /\ pendingRestore' = pendingRestore
             /\ (pendingRestore[d].present /\ pendingRestore[d].action = Null
                   /\ ~CredsMissing) =>
                   /\ pc'["wk"] = "re_discard"
                   /\ wDomain' = d
                   /\ req' = req
                   /\ remote' = remote
    /\ pc["wk"] = "re_discard" => req["wk"] = NoReq
    /\ (pc["wk"] = "re_discard" /\ pc'["wk"] # "re_discard") =>
          /\ ~pendingRestore'[wDomain].present
          /\ remote' = remote
          /\ req'["wk"] = NoReq
    /\ pc["wk"] \in {"re_post", "re_put"} => req["wk"].do # Null

\* C3: degraded restore path.  A successful Remove with a duration > 0 while
\* the session holds no action for the rule stores a record with action null.
\* When the reapply alarm fires with credentials and the stored record has a
\* null action, no request is sent and the record is removed, the remote store
\* untouched.  When it fires and no record is stored, no request is sent and
\* neither the records nor the remote store change.  The worker never has a
\* create/update request with a null action in flight.
C3_DegradedRestorePath == [][C3_Step]_vars

\* C3 witness: the reapply alarm has fired on a stored record whose action is
\* null; the worker is discarding it with no request in flight.
C3_Witness ==
    /\ pc["wk"] = "re_discard"
    /\ wDomain \in Domains
    /\ pendingRestore[wDomain].present
    /\ pendingRestore[wDomain].action = Null
    /\ req["wk"] = NoReq

\* ----------------------------------------------------------------------- C4
\* The steps of C4, one conjunct for each part of the property.
C4_Step ==
    /\ ApplyReturns =>
          alarms' = IF result' = "success" /\ IsPositive(duration)
                    THEN alarms \cup {ExpireName(currentDomain)}
                    ELSE alarms
    /\ (\E n \in alarms' \ alarms : StartsWith(n, EXPIRE_RULE)) =>
          ApplyReturns /\ result' = "success" /\ IsPositive(duration)

\* C4: the step in which the Apply handler receives the gateway's result arms
\* expire_rule_<domain> when the result is a success and the duration is > 0,
\* and leaves the alarms as they are otherwise (duration 0, NaN, or a
\* failure); no other step arms an expiry alarm.
C4_ExpiryArmedIffSuccessAndDuration == [][C4_Step]_vars

\* C4 witness: an Apply with a duration > 0 has succeeded and the expiry alarm
\* of its domain is armed.
C4_Witness ==
    /\ pc["op"] \in {"chk_q1", "chk_q2"}
    /\ result = "success"
    /\ IsPositive(duration)
    /\ ExpireName(currentDomain) \in alarms

\* ----------------------------------------------------------------------- C5
\* The steps of C5, one conjunct for each part of the property.
C5_Step ==
    /\ (RemoveReturns /\ IsPositive(duration)) =>
          IF result' = "success"
          THEN /\ pc'["op"] = "rm_persist"
               /\ opRecord' = Record(existingRuleAction, selectedProxy)
               /\ alarms' = alarms \cup {ReapplyName(currentDomain)}
          ELSE /\ result' = "failure"
               /\ pc'["op"] = "idle"
               /\ alarms' = alarms
               /\ opRecord' = opRecord
               /\ pendingRestore' = pendingRestore
    /\ PersistCompletes =>
          pendingRestore' = [pendingRestore EXCEPT ![currentDomain] = opRecord]
    /\ (\E d \in Domains : pendingRestore'[d].present /\ pendingRestore'[d] # pendingRestore[d]) =>
          PersistCompletes
    /\ (\E n \in alarms' \ alarms : StartsWith(n, REAPPLY_RULE)) =>
          RemoveReturns /\ result' = "success" /\ IsPositive(duration)

\* C5: the step in which the Remove handler receives the gateway's result,
\* with a duration > 0: on success it arms reapply_rule_<domain> and hands
\* storage.local.set a record with the action the session holds (possibly
\* null), which is stored when the write completes; on failure it arms nothing
\* and writes nothing.  No other step stores a record or arms a reapply alarm.
C5_RestoreBookkeepingIffDeletionSucceeded == [][C5_Step]_vars

\* C5 witness: a temporary Remove has succeeded; its record is stored and its
\* reapply alarm is armed.
C5_Witness ==
    /\ pc["op"] = "idle"
    /\ result = "success"
    /\ currentDomain \in Domains
    /\ pendingRestore[currentDomain].present
    /\ ReapplyName(currentDomain) \in alarms

\* ----------------------------------------------------------------------- C6
\* C6: in a temporary removal the record is stored before the reapply alarm
\* is armed: in no state is the alarm of the removal armed, the worker free
\* to take it, and the storage.local.set of that removal still to complete.
C6_RecordStoredBeforeAlarmArmed ==
    ~(/\ pc["op"] = "rm_persist"
      /\ ReapplyName(currentDomain) \in alarms
      /\ pc["wk"] = "idle")

\* ----------------------------------------------------------------------- C7
\* The steps of C7, one conjunct for each part of the property.
C7_Step ==
    /\ pc["wk"] \in {"re_post", "re_put"} =>
          /\ req["wk"].do # Null
          /\ \A out \in Serve(remote, req["wk"]) :
                LET outcome == reapplyOutcome(out.resp, pc["wk"] = "re_post")
                IN /\ (~out.resp.threw /\ out.resp.ok) => outcome = "remove"
                   /\ (~out.resp.threw /\ ~out.resp.ok) =>
                         outcome = IF pc["wk"] = "re_post" THEN "put" ELSE "return"
                   /\ out.resp.threw => outcome = "return"
          /\ pc'["wk"] # pc["wk"] =>
                /\ pc'["wk"] \in {"re_put", "re_unpersist", "idle"}
                /\ pendingRestore' = pendingRestore
                /\ alarms' = alarms
    /\ (pc["wk"] = "re_unpersist" /\ pc'["wk"] # "re_unpersist") =>
          /\ ~pendingRestore'[wDomain].present
          /\ alarms' = alarms
    /\ (pc["wk"] # "idle" /\ pc'["wk"] # pc["wk"]) => alarms' = alarms
    /\ (\E d \in Domains : pendingRestore[d].present /\ ~pendingRestore'[d].present) =>
          /\ pc["wk"] \in {"re_unpersist", "re_discard"}
          /\ pc'["wk"] = "idle"

C8_Step ==
    /\ pc["op"] = "ap_post" =>
          LET D == req["op"].hostnames[1]
          IN /\ ~HasRule(remote, D) =>
                   \A o1 \in Accept(remote, req["op"]) :
                      /\ postOutcome(o1.resp) = "success"
                      /\ o1.store[D] = RequestedRule(req["op"])
             /\ remote[D] = RequestedRule(req["op"]) =>
                   \A o1 \in Accept(remote, req["op"]) :
                      /\ postOutcome(o1.resp) = "put"
                      /\ o1.store = remote
                      /\ \A o2 \in Accept(o1.store, [req["op"] EXCEPT !.method = "PUT"]) :
                            /\ putOutcome(o2.resp) = "success"
                            /\ o2.store = remote
                            /\ Cardinality(RulesFor(o2.store, D)) = 1
    /\ (pc["op"] = "ap_post" /\ pc'["op"] = "ap_put") =>
          req'["op"] = [req["op"] EXCEPT !.method = "PUT"]
    /\ (ApplyReturns /\ result' = "success") =>
          /\ remote'[currentDomain] = RequestedRule(req["op"])
          /\ Cardinality(RulesFor(remote', currentDomain)) = 1

\* C8: Apply is idempotent.  A create for a domain without a rule, served by
\* the remote store, returns success and leaves the requested rule.  A create
\* that asks for the rule the store already holds for the domain is refused as
\* existing and followed by the update; the update, served by the remote
\* store, returns success and leaves the store as it was: one rule for the
\* domain.  The update carries the body of the create, and an Apply that
\* returns success leaves the requested rule in the store.
C8_ApplyIdempotent == [][C8_Step]_vars

\* C8 witness: the second Apply of the same rule: its create was refused, its
\* update is in flight and the store holds the rule it asks for.
C8_Witness ==
    /\ pc["op"] = "ap_put"
    /\ clicks = 2
    /\ remote[currentDomain] = RequestedRule(req["op"])
    /\ Cardinality(RulesFor(remote, currentDomain)) = 1

\* ----------------------------------------------------------------------- C9
\* The steps of C9, one conjunct for each part of the property.
C9_Step ==
    /\ (pc["op"] = "idle" /\ pc'["op"] = "ap_post") =>
          /\ currentDomain # EmptyStr
          /\ req'["op"].method = "POST"
          /\ req'["op"].hostnames = <<currentDomain>>
          /\ req'["op"].do = REDIRECT => req'["op"].via # NoProxy
    /\ pc["op"] \in {"ap_post", "ap_put"} =>
          /\ req["op"].hostnames[1] # EmptyStr
          /\ req["op"].do = REDIRECT => req["op"].via # NoProxy
    /\ (result' \in {"noproxy", "nocreds"} /\ result' # result) =>
          /\ pc' = pc
          /\ req' = req
          /\ alarms' = alarms
          /\ remote' = remote
          /\ clicks' = clicks

\* C9: Apply validation.  Every create request an Apply click sends is for the
\* current domain, which is not empty, and carries a proxy when its action is
\* Redirect; a click that is rejected sends no request, arms no alarm and
\* starts no handler.
C9_ApplyValidation == [][C9_Step]_vars

\* C9 witness: an Apply of Redirect without a proxy has been rejected, with
\* credentials present: no handler runs, no request is in flight.
C9_Witness ==
    /\ result = "noproxy"
    /\ ~CredsMissing
    /\ currentDomain # EmptyStr
    /\ selectedProxy = NoProxy
    /\ pc["op"] = "idle"
    /\ req["op"] = NoReq

\* ---------------------------------------------------------------------- C10
\* C10: getDomainVariations(d) is the two-element list [d, d without its
\* leading "www."] when d starts with "www.", and [d, "www." + d] otherwise;
\* its first element is d.
C10_DomainVariations ==
    fnDone =>
       /\ Len(fnOut) = 2
       /\ fnOut[1] = fnIn
       /\ fnOut[2] = IF Len(fnIn) >= 4 /\ SubSeq(fnIn, 1, 4) = <<"w", "w", "w", ".">>
                     THEN SubSeq(fnIn, 5, Len(fnIn))
                     ELSE <<"w", "w", "w", ".">> \o fnIn

\* C10 witness: the variations of "www.a" have been computed: ["www.a", "a"].
C10_Witness ==
    /\ fnDone
    /\ fnIn = <<"w", "w", "w", ".", "a">>
    /\ fnOut = <<fnIn, <<"a">>>>

\* ---------------------------------------------------------------------- C11
\* removeControlDRule receives the response to a deletion request in this step.
RemoveDeleteStep ==
    pc["op"] = "rm_del" /\ (pc'["op"] # "rm_del" \/ req'["op"] # req["op"])

\* The steps of C11, one conjunct for each part of the property.
C11_Step ==
    /\ (pc["op"] = "idle" /\ pc'["op"] = "rm_del") =>
          LET cands == domainsToTry(foundRule, currentDomain)
          IN /\ req'["op"] = Request("DELETE", <<cands[1]>>, Null, NoProxy)
             /\ opTried' = <<cands[1]>>
             /\ opCands' = Tail(cands)
    /\ pc["op"] = "rm_del" =>
          /\ req["op"] = Request("DELETE", <<opTried[Len(opTried)]>>, Null, NoProxy)
          /\ \A out \in Serve(remote, req["op"]) :
                deleteOutcome(out.resp) = "success" <=>
                   (~out.resp.threw /\ out.resp.ok /\ out.resp.decodable
                      /\ ~out.resp.successFalse)
    /\ (RemoveDeleteStep /\ pc'["op"] = "rm_del") =>
          /\ opCands # <<>>
          /\ req'["op"] = Request("DELETE", <<Head(opCands)>>, Null, NoProxy)
          /\ opTried' = Append(opTried, Head(opCands))
          /\ opCands' = Tail(opCands)
          /\ remote' = remote
    /\ (RemoveDeleteStep /\ (remote' # remote \/ result' = "success")) =>
          /\ result' = "success"
          /\ pc'["op"] \in {"idle", "rm_persist"}
          /\ req'["op"] = NoReq
          /\ opCands' = <<>>

\* C11: removeControlDRule sends its deletion requests one at a time, in the
\* order of its candidate list (the first at the click, each next one only
\* after the response to the one before), and the first response that is HTTP
\* 2xx with a decodable body whose success flag is not false ends it: the
\* handler gets success in that very step, with no request left in flight and
\* no candidate left to try, so neither a later deletion nor the bypass update
\* is sent.
C11_DeleteStopsAtFirstSuccess == [][C11_Step]_vars

\* C11 witness: a Remove has returned success with the rule deleted from the
\* store, and its re-check is scheduled.
C11_Witness ==
    /\ pc["op"] = "idle"
    /\ result = "success"
    /\ recheckTimers > 0
    /\ foundRule.found
    /\ RulesFor(remote, currentDomain) = {}
    /\ req["op"] = NoReq /\ opCands = <<>>

\* ---------------------------------------------------------------------- C12
\* C12: when every deletion candidate has been tried and has failed, the
\* bypass update that removeControlDRule falls back to names every candidate
\* that was tried, the found rule's store key included.
C12_BypassCoversTriedCandidates ==
    (pc["op"] = "rm_bypass"
       /\ Range(getDomainVariations(currentDomain)) \subseteq Range(opTried)) =>
       /\ req["op"].method = "PUT"
       /\ req["op"].do = BYPASS
       /\ Range(opTried) \subseteq Range(req["op"].hostnames)

\* ---------------------------------------------------------------------- C13
\* The response is HTTP 2xx with a decodable body whose success flag is not false.
GoodResponse(r) == ~r.threw /\ r.ok /\ r.decodable /\ ~r.successFalse

\* The steps of C13, one conjunct for each part of the property.
C13_Step ==
    /\ pc["op"] = "ap_post" =>
          /\ req["op"].method = "POST"
          /\ \A out \in Serve(remote, req["op"]) :
                /\ postOutcome(out.resp) \in {"success", "put", "fail"}
                /\ postOutcome(out.resp) = "success" <=> GoodResponse(out.resp)
    /\ pc["op"] = "ap_put" =>
          /\ req["op"].method = "PUT"
          /\ \A out \in Serve(remote, req["op"]) :
                /\ putOutcome(out.resp) \in {"success", "fail"}
                /\ putOutcome(out.resp) = "success" <=> GoodResponse(out.resp)
    /\ ApplyReturns =>
          /\ result' \in {"success", "failure"}
          /\ \E out \in Serve(remote, req["op"]) :
                /\ remote' = out.store
                /\ result' = "success" <=> GoodResponse(out.resp)
                /\ pc["op"] = "ap_post" => postOutcome(out.resp) # "put"

\* C13: updateControlDRule returns success only when the last response it
\* received, the create response or the update response when an update was
\* sent, is HTTP 2xx with a body that decodes and whose success flag is not
\* false; with any other last response (no response at all included) the
\* handler gets a failure.
C13_SuccessOnlyOnGoodLastResponse == [][C13_Step]_vars

\* C13 witness: an Apply has returned failure with nothing created, and its
\* follow-up status check is running.
C13_Witness ==
    /\ result = "failure"
    /\ pc["op"] = "chk_q1"
    /\ RulesFor(remote, currentDomain) = {}
    /\ alarms = {}

\* ---------------------------------------------------------------------- C14
\* C14: whatever the response to the create request, updateControlDRule sends
\* the update request only when that response reports that the rule already
\* exists: a decoded body with error code 40003 or a message containing
\* "exist", or HTTP status 409.
C14_UpdateOnlyWhenRuleExists ==
    pc["op"] = "ap_post" =>
       \A out \in Serve(remote, req["op"]) :
          postOutcome(out.resp) = "put" =>
             /\ ~out.resp.threw
             /\ out.resp.conflict \/ (out.resp.decodable /\ out.resp.existsMark)

\* ---------------------------------------------------------------------- C15
\* The steps of C15, one conjunct for each part of the property.
C15_Step ==
    /\ \A d \in Domains :
          Fires(ExpireName(d)) =>
             /\ alarms' = alarms \ {ExpireName(d)}
             /\ pendingRestore' = pendingRestore
             /\ ~CredsMissing =>
                   /\ pc'["wk"] = "exp_del"
                   /\ req'["wk"] = Request("DELETE", <<d>>, Null, NoProxy)
    /\ pc["wk"] = "exp_del" =>
          /\ req["wk"] = Request("DELETE", <<wDomain>>, Null, NoProxy)
          /\ pc'["wk"] \in {"exp_del", "idle"}
          /\ pc'["wk"] = "idle" =>
                /\ req'["wk"] = NoReq
                /\ pendingRestore' = pendingRestore
                /\ alarms' = alarms
                /\ opRecord' = opRecord

\* C15: when the alarm expire_rule_D fires, the worker (with credentials)
\* sends one deletion request for hostnames [D] and nothing else: the step that
\* fires the alarm only removes that alarm, and the step that receives the
\* deletion's response, whatever the response, ends the handler with the
\* PendingRestore records and the armed alarms as they were.
C15_ExpirySchedulesNoRestore == [][C15_Step]_vars

\* C15 witness: the only click was an Apply that succeeded; the rule it
\* created is gone again, the expiry handler has finished, and there is no
\* record and no alarm.
C15_Witness ==
    /\ clicks = 1
    /\ result = "success"
    /\ hasExistingRule
    /\ pc["wk"] = "idle"
    /\ RulesFor(remote, currentDomain) = {}
    /\ alarms = {}
    /\ \A d \in Domains : ~pendingRestore[d].present

\* ---------------------------------------------------------------------- C16
\* The steps of C16, one conjunct for each part of the property.
C16_Step ==
    /\ \A d \in DOMAIN pendingRestore : pendingRestore[d] \in StoredRecords
    /\ (RemoveReturns /\ result' = "success" /\ IsPositive(duration)) =>
          /\ pc'["op"] = "rm_persist"
          /\ opRecord' = Record(existingRuleAction, selectedProxy)
          /\ pendingRestore' = pendingRestore
    /\ PersistCompletes =>
          /\ opRecord.present
          /\ DOMAIN pendingRestore' = DOMAIN pendingRestore
          /\ pendingRestore'[currentDomain] = opRecord
          /\ \A d \in DOMAIN pendingRestore \ {currentDomain} :
                pendingRestore'[d] = pendingRestore[d]
    /\ ~PersistCompletes => pendingRestore' = pendingRestore

\* C16: storage.local holds one record (or none) under the key of each
\* domain.  The write that follows a successful temporary removal of the
\* current domain puts the new record, made of the action and proxy the
\* session holds, in the place of whatever record the domain had; the records
\* of every other domain are as before, and no other step of the Remove
\* handler changes a record.
C16_OneRecordLastWriteWins == [][C16_Step]_vars

\* C16 witness: a temporary removal of the Block rule of "a" has stored its
\* record where an earlier record with another action was, and the Redirect
\* record of the other domain is still there.
C16_Witness ==
    /\ pc["op"] = "idle"
    /\ result = "success"
    /\ ReapplyName(currentDomain) \in alarms
    /\ pendingRestore[currentDomain] = Record(BLOCK, NoProxy)
    /\ OtherDomain \in DOMAIN pendingRestore
    /\ pendingRestore[OtherDomain] = Record(REDIRECT, "p1")

\* ---------------------------------------------------------------------- C17
\* The steps of C17, one conjunct for each part of the property.
C17_Step ==
    (RemoveReturns /\ result' = "success" /\ duration = 0) =>
       /\ pendingRestore' = pendingRestore
       /\ alarms' = alarms
       /\ opRecord' = opRecord
       /\ pc'["op"] = "idle"
       /\ req'["op"] = NoReq
       /\ recheckTimers' = ScheduleRecheck

\* C17: the step in which the Remove handler gets success from
\* removeControlDRule with duration 0 ends the handler: no record is written
\* or handed to storage.local.set, no alarm is armed, and only the re-check
\* timer is scheduled.
C17_PermanentRemoveNoBookkeeping == [][C17_Step]_vars

\* C17 witness: after an Apply and a Remove, the Remove has returned success
\* and its re-check is scheduled, the rule is gone, the worker is idle, and
\* neither a record nor an alarm exists.
C17_Witness ==
    /\ clicks = 2
    /\ pc["op"] = "idle"
    /\ pc["wk"] = "idle"
    /\ result = "success"
    /\ recheckTimers > 0
    /\ duration = 0
    /\ opRecord = NoRecord
    /\ RulesFor(remote, currentDomain) = {}
    /\ alarms = {}
    /\ \A d \in Domains : ~pendingRestore[d].present

\* ---------------------------------------------------------------------- C18
\* checkExistingRule returns on thread t in this step, after a query response.
CheckCompletes(t) == pc[t] \in {"chk_q1", "chk_q2"} /\ pc'[t] = "idle"

\* The steps of C18, one conjunct for each part of the property.
C18_Step ==
    \A t \in {"op", "bg"} :
       LET variations == getDomainVariations(currentDomain)
           h == req[t].hostnames[1]
       IN /\ (CheckCompletes(t) /\ ~hasExistingRule') =>
                /\ ~CredsMissing
                /\ req[t] = Request("GET", <<variations[IF pc[t] = "chk_q1" THEN 1 ELSE 2]>>,
                                    Null, NoProxy)
                /\ \A out \in Accept(remote, req[t]) :
                      LET fr == checkFound(out.resp, variations, foundRule)
                      IN /\ ~checkCaught(out.resp)
                         /\ HasRule(remote, h) =>
                               /\ Len(out.resp.rules) = 1
                               /\ fr = Found(out.resp.rules[1])
                         /\ ~HasRule(remote, h) => fr = foundRule
                /\ \A f \in Faults :
                      /\ checkCaught(f) <=> f.threw
                      /\ checkFound(f, variations, foundRule) = foundRule
          /\ CheckCompletes(t) =>
                /\ hasExistingRule' =>
                      /\ foundRule'.found
                      /\ existingRuleAction' = foundRule'.action
                      /\ HasRule(remote, h) \/ foundRule.found
                /\ (~HasRule(remote, h) /\ ~foundRule.found) =>
                      /\ ~hasExistingRule'
                      /\ foundRule' = NoFound
                /\ (~hasExistingRule' /\ pc[t] = "chk_q1") =>
                      /\ existingRuleAction' = existingRuleAction
                      /\ foundRule' = foundRule
          /\ (pc[t] = "chk_q1" /\ pc'[t] = "chk_q2") =>
                /\ foundRule' = foundRule
                /\ hasExistingRule' = hasExistingRule

C19_Step ==
    (RemoveReturns /\ result' = "success" /\ duration = 0 /\ hasExistingRule) =>
       LET variations == getDomainVariations(currentDomain)
       IN /\ recheckTimers' > 0
          /\ \A i \in 1..Len(variations) :
                \A out \in Accept(remote', Request("GET", <<variations[i]>>, Null, NoProxy)) :
                   ~checkFound(out.resp, variations, NoFound).found

\* C19: when a Remove with duration 0 returns success for a domain shown as
\* active, the re-check is scheduled and, served by the store as the removal
\* left it, finds no rule for any variation, so that it ends with
\* hasExistingRule false; this for the deletion and for the bypass fallback.
C19_ReadyAfterPermanentRemove == [][C19_Step]_vars

\* ---------------------------------------------------------------------- C20
\* The steps of C20, one conjunct for each part of the property.
C20_Step ==
    LET variations == getDomainVariations(currentDomain)
    IN /\ ApplyReturns =>
             /\ pc'["op"] = "chk_q1"
             /\ req'["op"] = Request("GET", <<currentDomain>>, Null, NoProxy)
             /\ foundRule' = NoFound
             /\ result' = "success" => remote'[currentDomain] = RequestedRule(req["op"])
       /\ (pc["op"] = "chk_q1" /\ pc'["op"] # "chk_q1" /\ HasRule(remote, currentDomain)) =>
             \A out \in Accept(remote, req["op"]) :
                LET fr == checkFound(out.resp, variations, foundRule)
                    r == out.resp.rules[1]
                IN /\ ~checkCaught(out.resp)
                   /\ fr.found
                   /\ fr.action = IF r.action = Undef /\ r.do = Undef
                                  THEN Null ELSE remote[currentDomain].do
       /\ (CheckCompletes("op") /\ hasExistingRule') =>
             /\ foundRule'.found
             /\ existingRuleAction' = foundRule'.action
       /\ (hasExistingRule /\ ~hasExistingRule') =>
             \/ \E t \in {"op", "bg"} : CheckCompletes(t)
             \/ pc'["bg"] = "tabs"
       /\ (HasRule(remote, currentDomain) /\ ~HasRule(remote', currentDomain)) =>
             \/ pc["op"] = "rm_del" /\ RemoveDeleteStep
             \/ pc["wk"] = "exp_del" /\ pc'["wk"] = "idle"

C21_MatchesVariation(r, dvs) ==
    \E i \in 1..Len(dvs) : dvs[i] \in Range(r.hostnames) \/ r.hostname = dvs[i] \/ r.PK = dvs[i]

\* C21: a status check finds a rule whenever a 2xx query response lists a rule
\* that matches any of the domain's variations by hostnames-list membership,
\* hostname field or store key, also when it matches the second variation
\* only: the rule found is the first such rule of the list, and for the rule
\* {hostnames: [bare], do: 1} with the domain "www." + bare the result is
\* Active with action 1.
C21_FindsUnderAnyVariation ==
    fnDone =>
        LET dvs == getDomainVariations(fnIn.domain)
            rules == fnIn.resp.rules
            hits == {i \in 1..Len(rules) : C21_MatchesVariation(rules[i], dvs)}
        IN /\ (fnIn.resp.ok /\ hits # {}) =>
                  /\ fnOut.found
                  /\ \E i \in hits : /\ \A j \in hits : i <= j
                                     /\ fnOut.PK = rules[i].PK
                                     /\ rules[i].do = Num(BYPASS) => fnOut.action = BYPASS
           /\ (fnIn.resp.ok /\ hits = {}) => ~fnOut.found
           /\ ~fnIn.resp.ok => ~fnOut.found

C21_Witness ==
    /\ fnDone
    /\ fnIn.domain = WWW \o <<"a">>
    /\ fnIn.resp.ok
    /\ fnIn.resp.rules = <<RuleObject(EmptyStr, EmptyStr, <<<<"a">>>>, Undef, Num(BYPASS))>>
    /\ fnOut.found
    /\ fnOut.action = 1

\* ---------------------------------------------------------------------- C22
\* Every combination of network exception, response status, body decodability
\* and body content a fetch may come to.
AllResponses ==
    {r \in {Response(t, ok, c, d, sf, em, <<>>) : t, ok, c, d, sf, em \in BOOLEAN} :
        /\ r.threw => ~r.ok /\ ~r.conflict /\ ~r.decodable
        /\ ~r.decodable => ~r.successFalse /\ ~r.existsMark
        /\ r.conflict => ~r.ok}

\* The steps of C22, one conjunct for each gateway operation.
C22_Step ==
    /\ (pc["op"] = "ap_post" /\ pc'["op"] # "ap_post") =>
          /\ \A r \in AllResponses : postOutcome(r) \in {"success", "put", "fail"}
          /\ pc'["op"] \in {"ap_put", "chk_q1"}
    /\ (pc["op"] = "ap_put" /\ pc'["op"] # "ap_put") =>
          /\ \A r \in AllResponses : putOutcome(r) \in {"success", "fail"}
          /\ pc'["op"] = "chk_q1"
    /\ ApplyReturns => result' \in {"success", "failure"}
    /\ RemoveDeleteStep =>
          /\ \A r \in AllResponses : deleteOutcome(r) \in {"success", "next", "bypass"}
          /\ pc'["op"] \in {"rm_del", "rm_bypass", "rm_persist", "chk_q1", "idle"}
    /\ (pc["op"] = "rm_bypass" /\ pc'["op"] # "rm_bypass") =>
          /\ \A r \in AllResponses : bypassOutcome(r) \in {"success", "fail"}
          /\ pc'["op"] \in {"rm_persist", "chk_q1", "idle"}
    /\ RemoveReturns => result' \in {"success", "failure"}
    /\ (pc["wk"] = "exp_del" /\ pc'["wk"] # "exp_del") => pc'["wk"] = "idle"
    /\ (pc["wk"] = "re_post" /\ pc'["wk"] # "re_post") =>
          /\ \A r \in AllResponses : reapplyOutcome(r, TRUE) \in {"remove", "put", "return"}
          /\ pc'["wk"] \in {"re_put", "re_unpersist", "idle"}
    /\ (pc["wk"] = "re_put" /\ pc'["wk"] # "re_put") =>
          /\ \A r \in AllResponses : reapplyOutcome(r, FALSE) \in {"remove", "return"}
          /\ pc'["wk"] \in {"re_unpersist", "idle"}

\* C22: no gateway operation (updateControlDRule, removeControlDRule,
\* removeRuleViaBypass, the worker's removeRule and reapplyRule) lets a
\* transport exception or a JSON-decode failure reach its caller: on every
\* combination of exception, status and decodability it returns success or
\* failure, or completes normally.
C22_NoExceptionEscapes == [][C22_Step]_vars

\* Apply came back with a failure although the store holds no rule and would
\* have served the create: the requests met exceptions or failed responses.
C22_Witness ==
    /\ result = "failure"
    /\ pc["op"] = "chk_q1"
    /\ req["op"].method = "GET"
    /\ \A h \in Hosts : ~HasRule(remote, h)
    /\ applyDisabled

\* ---------------------------------------------------------------------- C23
\* C23: at most one Apply is in flight at a time: while an Apply started by a
\* click has not completed its button is disabled, so no second click starts
\* an overlapping Apply and no two create/update calls of two Apply clicks
\* are outstanding together; the same holds for Remove and its calls.
C23_OneOperationInFlight ==
    /\ Cardinality({h \in Handlers : pc[h] \in {"ap_post", "ap_put"}}) <= 1
    /\ Cardinality({h \in Handlers : pc[h] \in {"rm_del", "rm_bypass"}}) <= 1

\* ---------------------------------------------------------------------- C24
\* C24: trigger-name round trip: the alarm armed as "expire_rule_" + d is
\* dispatched to removeRule with exactly d (its deletion names d), the alarm
\* armed as "reapply_rule_" + d to reapplyRule with exactly d (its create
\* names d), and no alarm name is dispatched to both handlers.
C24_TriggerRoundTrip ==
    alarms = {} =>
        /\ wDomain = fnIn.domain
        /\ req["wk"].hostnames = <<fnIn.domain>>
        /\ fnIn.kind = "expire" => pc["wk"] = "exp_del" /\ req["wk"].method = "DELETE"
        /\ fnIn.kind = "reapply" => pc["wk"] = "re_post" /\ req["wk"].method = "POST"

\* The alarm of a domain that itself holds the other prefix has fired.
C24_Witness ==
    /\ alarms = {}
    /\ fnIn.kind = "reapply"
    /\ fnIn.domain = EXPIRE_RULE \o <<"a">>
    /\ pc["wk"] = "re_post"
    /\ wDomain = EXPIRE_RULE \o <<"a">>

\* ---------------------------------------------------------------------- C25
\* C25: the worker's reapplyRule behaves like updateControlDRule: on every
\* response to its create request it sends the update exactly when
\* updateControlDRule would, and it counts the outcome of the create or of
\* the update as success (removing the PendingRestore) exactly when
\* updateControlDRule would return success.
C25_ReapplyLikeUpdate ==
    /\ pc["wk"] = "re_post" =>
          \A out \in Serve(remote, req["wk"]) :
              /\ reapplyOutcome(out.resp, TRUE) = "put" <=> postOutcome(out.resp) = "put"
              /\ reapplyOutcome(out.resp, TRUE) = "remove" <=> postOutcome(out.resp) = "success"
    /\ pc["wk"] = "re_put" =>
          \A out \in Serve(remote, req["wk"]) :
              reapplyOutcome(out.resp, FALSE) = "remove" <=> putOutcome(out.resp) = "success"

\* ---------------------------------------------------------------------- C26
\* C26: the action a temporary Remove stores in its PendingRestore is the
\* action of the active rule as it was resolved before the deletion request
\* was issued, whatever status check runs while the Remove is in flight.
C26_Step ==
    (RemoveReturns /\ pc'["op"] = "rm_persist") => opRecord'.action = opAction

C26_StoredActionResolvedBeforeDelete == [][C26_Step]_vars

\* ---------------------------------------------------------------------- C27
\* The query of the status check for variation i of the current domain.
C27_Query(i) == Request("GET", <<getDomainVariations(currentDomain)[i]>>, Null, NoProxy)

\* The steps of C27, one conjunct for each part of the property.
C27_Step ==
    \A t \in {"op", "bg"} :
        \* a check starts with the query of the first variation
        /\ (pc[t] \notin {"chk_q1", "chk_q2"} /\ pc'[t] = "chk_q1") =>
              req'[t] = Request("GET", <<getDomainVariations(currentDomain')[1]>>, Null, NoProxy)
        \* while it runs, its one outstanding query is that of its position
        /\ pc[t] = "chk_q1" => req[t] = C27_Query(1)
        /\ pc[t] = "chk_q2" => req[t] = C27_Query(2)
        \* the second variation is queried only after the first, and only when
        \* the response to the first was non-2xx, empty or without a match
        /\ (pc[t] # "chk_q2" /\ pc'[t] = "chk_q2") =>
              /\ pc[t] = "chk_q1"
              /\ UNCHANGED hasExistingRule
              /\ \E out \in Serve(remote, req[t]) :
                    /\ ~checkCaught(out.resp)
                    /\ ~checkFound(out.resp, getDomainVariations(currentDomain), NoFound).found
        \* a match ends the check with no further query
        /\ (pc[t] = "chk_q1" /\ pc'[t] = "idle" /\ hasExistingRule') =>
              /\ req'[t] = NoReq
              /\ \E out \in Serve(remote, req[t]) :
                    checkFound(out.resp, getDomainVariations(currentDomain), NoFound).found
        \* after the last variation nothing more is queried
        /\ (pc[t] = "chk_q2" /\ pc'[t] # "chk_q2") =>
              pc'[t] \in {"idle", "tabs"} /\ req'[t] = NoReq

C28_FirstProducedCode ==
    fnDone =>
        LET produces(v) == v[1] \in {"num", "objvalue"}
        IN fnOut = IF fnIn.action[1] = "objdo" THEN fnIn.action[2]
                   ELSE IF produces(fnIn.do) THEN fnIn.do[2]
                   ELSE IF produces(fnIn.action) THEN fnIn.action[2]
                   ELSE Null

\* ---------------------------------------------------------------------- C29
\* C29: the deletion candidates of removeControlDRule are the store key (PK)
\* of the last found rule followed by the domain variations other than that
\* key, in their original order, when the found rule has a PK; otherwise
\* they are getDomainVariations(domain).  The list has no duplicate and
\* holds every domain variation.
C29_CandidateList ==
    fnDone =>
        LET dvs == getDomainVariations(fnIn.domain)
            pk == fnIn.found.PK
            rest == Tail(fnOut)
        IN /\ IF fnIn.found.found /\ pk # EmptyStr
              THEN /\ Head(fnOut) = pk
                   /\ Range(rest) = Range(dvs) \ {pk}
                   /\ Len(rest) = Cardinality(Range(dvs) \ {pk})
                   /\ (Len(rest) = Len(dvs)) => rest = dvs
              ELSE fnOut = dvs
           /\ \A i, j \in 1..Len(fnOut) : i # j => fnOut[i] # fnOut[j]
           /\ Range(dvs) \subseteq Range(fnOut)

\* The found rule's PK is the second variation: it comes first and once.
C29_Witness ==
    /\ fnDone
    /\ fnIn.found.found
    /\ fnIn.found.PK = getDomainVariations(fnIn.domain)[2]
    /\ fnOut = <<getDomainVariations(fnIn.domain)[2], getDomainVariations(fnIn.domain)[1]>>

\* ---------------------------------------------------------------------- C30
\* The steps of C30, one conjunct for each part of the property.
C30_Step ==
    \* when updateControlDRule returns, with success or with failure, the
    \* handler calls checkExistingRule and its button stays disabled
    /\ ApplyReturns =>
          /\ result' \in {"success", "failure"}
          /\ pc'["op"] = "chk_q1"
          /\ req'["op"] = Request("GET", <<getDomainVariations(currentDomain)[1]>>, Null, NoProxy)
          /\ applyDisabled'
    \* the handler of an Apply that sent a request ends from the check only
    /\ (pc["op"] \in {"ap_post", "ap_put", "chk_q1", "chk_q2"} /\ pc'["op"] = "idle") =>
          /\ pc["op"] \in {"chk_q1", "chk_q2"}
          /\ applyDisabled /\ ~applyDisabled'

\* C30: every Apply that issued a gateway call is followed by a status check
\* (checkExistingRule) before the operation completes, when the gateway call
\* succeeded and when it failed.
C30_CheckFollowsApply == [][C30_Step]_vars

\* After a failed Apply the handler's status check is at its second query.
C30_Witness ==
    /\ result = "failure"
    /\ pc["op"] = "chk_q2"
    /\ applyDisabled

\* ---------------------------------------------------------------- C31
\* The fallback chain a label belongs to.
C31_Chain(label) ==
    IF label = "idle" \/ label = "tabs" THEN "none"
    ELSE IF label = "ap_post" \/ label = "ap_put" THEN "createOrUpdateRule"
    ELSE IF label = "rm_del" \/ label = "rm_bypass" THEN "deleteRule"
    ELSE IF label = "chk_q1" \/ label = "chk_q2" THEN "checkExistingRule"
    ELSE IF label = "re_post" \/ label = "re_put" THEN "reapplyRule"
    ELSE IF label = "exp_del" THEN "removeRule"
    ELSE "none"

\* The requests a chain standing at label can still send, the one in flight
\* included, when cands candidates are still untried.
C31_Remaining(label, cands) ==
    IF label = "ap_post" \/ label = "chk_q1" \/ label = "re_post" THEN 2
    ELSE IF label = "rm_del" THEN Len(cands) + 2
    ELSE IF C31_Chain(label) # "none" THEN 1
    ELSE 0

C31_Step ==
    /\ \A t \in Threads :
          (pc'[t] # pc[t] \/ req'[t] # req[t]) =>
             LET before == C31_Chain(pc[t])
                 after == C31_Chain(pc'[t])
             IN IF after = "none"
                THEN req'[t] = NoReq
                ELSE IF after = before
                THEN C31_Remaining(pc'[t], opCands') < C31_Remaining(pc[t], opCands)
                ELSE /\ req'[t] # NoReq
                     /\ C31_Remaining(pc'[t], opCands')
                          = IF pc'[t] = "rm_del"
                            THEN Len(domainsToTry(foundRule, currentDomain)) + 1
                            ELSE IF pc'[t] = "exp_del" THEN 1 ELSE 2
    /\ (ApplyReturns \/ RemoveReturns) => result' \in {"success", "failure"}

\* C31: every fallback chain ends after a bounded number of requests with an
\* explicit result: each further request of a chain lowers the number it can
\* still send, which starts at 2 for createOrUpdateRule, the status check and
\* the worker's reapply, at 1 for the worker's expiry and at the number of
\* candidates plus 1 for deleteRule.
C31_BoundedRequests == [][C31_Step]_vars

\* deleteRule has sent a request for each of its three candidates and then
\* the bypass update.
C31_Witness ==
    /\ pc["op"] = "rm_bypass"
    /\ Len(opTried) = Len(domainsToTry(foundRule, currentDomain))
    /\ Len(opTried) = 3

\* ---------------------------------------------------------------- C32
\* C32: a create or update request of the popup or of the worker carries a via
\* field only if its action is Redirect, and the bypass fallback's update
\* carries the action Bypass and no via.
C32_ViaOnlyWithRedirect ==
    /\ \A t \in Threads :
          (req[t] # NoReq /\ req[t].method \in {"POST", "PUT"} /\ req[t].via # NoProxy)
              => req[t].do = REDIRECT
    /\ pc["op"] = "rm_bypass" => (req["op"].do = BYPASS /\ req["op"].via = NoProxy)

\* A rule with an action other than Redirect is being created or updated
\* while a proxy is selected in the popup.
C32_Witness ==
    /\ pc["op"] \in {"ap_post", "ap_put"}
    /\ req["op"].do # REDIRECT
    /\ selectedProxy # NoProxy
    /\ req["op"].via = NoProxy

\* ---------------------------------------------------------------- C33
\* The Apply handler has received a success for a permanent rule (a duration
\* of 0 or absent) and has not yet returned.
C33_PermanentApplied ==
    /\ pc["op"] \in {"chk_q1", "chk_q2"}
    /\ result = "success"
    /\ ~IsPositive(duration)

C33_Step ==
    (C33_PermanentApplied /\ Fires(ExpireName(currentDomain)) /\ HasRule(remote, currentDomain))
        => /\ req'["wk"] # NoReq
           /\ \A out \in Accept(remote, req'["wk"]) : HasRule(out.store, currentDomain)

\* C33: once a permanent Apply for the current domain has succeeded, an expire
\* trigger of that domain that fires does not remove the domain's rule: the
\* request its handler sends, served by the store, leaves the rule in place.
C33_PermanentRuleSurvives == [][C33_Step]_vars

\* ---------------------------------------------------------------- C34
\* The store once the worker's request rq has been served, together with the
\* update that follows a refused create.
C34_AfterReapply(store, rq) ==
    UNION {IF reapplyOutcome(o1.resp, TRUE) = "put"
           THEN {o2.store : o2 \in Accept(o1.store, [rq EXCEPT !.method = "PUT"])}
           ELSE {o1.store} : o1 \in Accept(store, rq)}

C34_Step ==
    LET D == currentDomain
    IN (/\ Fires(ReapplyName(D))
        /\ result = "success"
        /\ pc["op"] \in {"idle", "chk_q1", "chk_q2"}
        /\ HasRule(remote, D)
        /\ req'["wk"] # NoReq
        /\ StoredInfo(D).action # remote[D].do)
          => \A store \in C34_AfterReapply(remote, req'["wk"]) : store[D] = remote[D]

\* C34: when the user has applied a rule to the current domain after its
\* temporary removal, with an action other than the removed rule's, and the
\* reapply trigger then fires, the requests of the trigger's handler leave the
\* domain's rule as the user applied it.
C34_NewerChoiceKept == [][C34_Step]_vars

\* ---------------------------------------------------------------- C35
C35_Step ==
    /\ \A h \in Hosts :
          (/\ RemoveReturns /\ pc'["op"] = "rm_persist"
           /\ HasRule(remote, h) /\ remote[h].do = REDIRECT
           /\ remote'[h] # remote[h]
           /\ opRecord'.action = REDIRECT)
             => opRecord'.proxyId = remote[h].via
    /\ \A d \in Domains :
          (Fires(ReapplyName(d)) /\ req'["wk"] # NoReq /\ StoredInfo(d).action = REDIRECT)
             => (req'["wk"].do = REDIRECT /\ req'["wk"].via = StoredInfo(d).proxyId)

\* C35: when a temporary Remove takes a Redirect rule out of the store and
\* records its action, the record it prepares for storage.local names the
\* proxy of that rule, whatever proxy is selected in the popup; and the request
\* sent when the reapply trigger fires for a Redirect record has do = 3 and
\* the record's proxy as via.
C35_RedirectRestoredViaItsProxy == [][C35_Step]_vars

\* ---------------------------------------------------------------- C36
C36_Step ==
    \A d \in DOMAIN pendingRestore :
        pendingRestore'[d] # pendingRestore[d] =>
            \/ /\ PersistCompletes
               /\ result = "success" /\ IsPositive(duration)
               /\ d = currentDomain
               /\ pendingRestore'[d].present
            \/ /\ pc["wk"] \in {"re_discard", "re_unpersist"} /\ pc'["wk"] = "idle"
               /\ d = wDomain
               /\ pendingRestore'[d] = NoRecord

\* C36: a step changes a PendingRestore record only by the storage.local.set
\* of a successful temporary Remove, which writes the record of the current
\* domain, or by the storage.local.remove of the reapply trigger's handler,
\* which deletes the record of the trigger's domain; every step of Apply, of
\* the status check, of a permanent Remove and of the expire trigger's handler
\* leaves every record as it is.
C36_RecordsWrittenAndDeletedOnlyThere == [][C36_Step]_vars

\* The expire trigger's handler has its deletion in flight while storage.local
\* holds a record for the same domain.
C36_Witness ==
    /\ pc["wk"] = "exp_del"
    /\ StoredInfo(wDomain).present

\* ---------------------------------------------------------------- C37
C37_Step ==
    \A t \in {"op", "bg"} :
        (CheckCompletes(t) /\ ~hasExistingRule')
            => (existingRuleAction' = Null /\ foundRule' = NoFound)

\* C37: whenever a run of checkExistingRule completes and leaves
\* hasExistingRule false, it leaves existingRuleAction null and foundRule
\* empty as well.
C37_SessionConsistentAfterCheck == [][C37_Step]_vars

\* ---------------------------------------------------------------- C38
C38_Step ==
    (pc["op"] = "rm_del" /\ pc'["op"] = "rm_bypass") => opCands = <<>>

\* C38: deleteRule sends the bypass update only when a deletion request has
\* been attempted for every candidate: at the step that turns to the fallback
\* no candidate is left untried.
C38_BypassAfterEveryCandidate == [][C38_Step]_vars

\* ---------------------------------------------------------------- C39
C39_Step ==
    \A name \in alarms :
        (Fires(name) /\ CredsMissing) =>
            /\ pc'["wk"] = "idle" /\ req'["wk"] = NoReq
            /\ remote' = remote
            /\ pendingRestore' = pendingRestore
            /\ alarms' \subseteq alarms

\* C39: when an expire or reapply trigger fires while the API key or the
\* profile identifier is missing, its handler returns without a request to the
\* remote store, leaves every PendingRestore record as it is, one with a null
\* action included, and arms no trigger.
C39_NothingWithoutCredentials == [][C39_Step]_vars

\* The reapply trigger of a domain whose record has a null action has fired
\* without credentials, and the record is still stored.
C39_Witness ==
    \E d \in DOMAIN pendingRestore :
        /\ CredsMissing
        /\ ReapplyName(d) \in fnIn /\ ReapplyName(d) \notin alarms
        /\ pendingRestore[d].present /\ pendingRestore[d].action = Null

====
